---- MODULE Spec2Model ----
(***************************************************************************)
(* A model of the mercury packet archiver: the capture pipeline            *)
(*   Reader -> Scheduler -> Writer_1..Writer_N -> Mux -> Extractor         *)
(*          -> Indexer -> IndexWriter                                      *)
(* together with the index data model and the query lookup.  Every worker  *)
(* goroutine is a process with a program counter; every Go channel is a    *)
(* bounded FIFO with a closed flag.                                        *)
(*                                                                         *)
(* Byte counts and file offsets are 64/32-bit unsigned integers in the     *)
(* source.  They are represented here as pairs <<hi, lo>> of 16-bit limbs  *)
(* (value = hi * 65536 + lo) so that values around 2^32 stay exact.        *)
(* Wall-clock time is counted in seconds.                                  *)
(***************************************************************************)
EXTENDS Integers, Sequences, FiniteSets, TLC

(***************************************************************************)
(* Bounds of the model.                                                    *)
(***************************************************************************)
\* Number of packets the packet source delivers at most.
MaxPackets == 2
\* Capacities of the inter-stage channels (each is 8192 in the source).
readIfChanSize == 1
schedulerChanSize == 2
pcapWriterChanSize == 2
muxBufferSize == 1
ExtractorChanSize == 1
idxOutChanSize == 1
\* The wall clock is observed up to this many seconds after the start.
MaxClock == 60

(***************************************************************************)
(* Program constants.                                                      *)
(***************************************************************************)
PcapFileHeaderLen == 24
PcapRecordHeaderLen == 16
FilesPerEveryNMinutes == 1
Minute == 60
\* A rotation interval of half a minute.
HalfAMinute == Minute \div 2

MaxPcapFileTime == FilesPerEveryNMinutes * Minute

\* Zero values of the optional things of the source.
NilMsg == [msgType |-> "nil", payload |-> <<>>]
NilFile == [path |-> <<>>, pos |-> <<0, 0>>]
NilKey == [RecType |-> 255, Data |-> <<>>]

(***************************************************************************)
(* Unsigned arithmetic on limb pairs.                                      *)
(***************************************************************************)
Limb == 65536

U(n) == <<n \div Limb, n % Limb>>

UAdd(a, b) == <<a[1] + b[1] + ((a[2] + b[2]) \div Limb), (a[2] + b[2]) % Limb>>

ULess(a, b) == a[1] < b[1] \/ (a[1] = b[1] /\ a[2] < b[2])

UGeq(a, b) == ~ULess(a, b)

\* a - b for a >= b
USub(a, b) ==
  IF a[2] >= b[2] THEN <<a[1] - b[1], a[2] - b[2]>>
                  ELSE <<a[1] - b[1] - 1, a[2] + Limb - b[2]>>

\* uint32(x): keep the low 32 bits
Uint32(a) == <<a[1] % Limb, a[2]>>

MaxUint32 == <<Limb - 1, Limb - 1>>

\* math.MaxUint64 stands above every byte count the model can hold.
MaxUint64 == <<2147483647, Limb - 1>>

maxPcapFileSize == MaxUint32

(***************************************************************************)
(* Messages (message.go): a type and a payload map.                        *)
(***************************************************************************)
NewMessage(msgType) == [msgType |-> msgType, payload |-> <<>>]

Set(m, key, value) ==
  [m EXCEPT !.payload =
      [k \in (DOMAIN m.payload) \cup {key} |->
          IF k = key THEN value ELSE m.payload[k]]]

\* Get returns nil for a key that was never set.
Has(m, key) == key \in DOMAIN m.payload

Get(m, key) == m.payload[key]

(***************************************************************************)
(* Channels.                                                               *)
(***************************************************************************)
MakeChan(size) == [buf |-> <<>>, closed |-> FALSE, size |-> size]

\* a send of n messages in a row does not block
Room(ch, n) == Len(ch.buf) + n <= ch.size

Send(ch, m) == [ch EXCEPT !.buf = Append(@, m)]

CanRecv(ch) == Len(ch.buf) > 0

Recv(ch) == [ch EXCEPT !.buf = Tail(@)]

\* a "range" loop over the channel ends
Drained(ch) == ch.closed /\ Len(ch.buf) = 0

Close(ch) == [ch EXCEPT !.closed = TRUE]

(***************************************************************************)
(* Packets.  A packet is identified by its position in the capture (id),   *)
(* carries a capture timestamp <<seconds, fraction>> and the layers of one *)
(* of the frames below.  The three frames are those of scenario S1 plus a  *)
(* frame without a network layer.                                          *)
(***************************************************************************)
MacA == <<2, 0, 0, 0, 0, 1>>
MacB == <<2, 0, 0, 0, 0, 2>>
IpA == <<10, 0, 0, 1>>
IpB == <<10, 0, 0, 2>>

Frames ==
  [udp  |-> [CaptureLength |-> 100, SrcMAC |-> MacA, DstMAC |-> MacB,
             NetworkLayer |-> "IPv4", SrcIP |-> IpA, DstIP |-> IpB,
             TransportLayer |-> "UDP", SrcPort |-> 53, DstPort |-> 55000],
   icmp |-> [CaptureLength |-> 74, SrcMAC |-> MacB, DstMAC |-> MacA,
             NetworkLayer |-> "IPv4", SrcIP |-> IpB, DstIP |-> IpA,
             TransportLayer |-> "ICMPv4", SrcPort |-> 0, DstPort |-> 0],
   arp  |-> [CaptureLength |-> 42, SrcMAC |-> MacA, DstMAC |-> MacB,
             NetworkLayer |-> "", SrcIP |-> <<>>, DstIP |-> <<>>,
             TransportLayer |-> "", SrcPort |-> 0, DstPort |-> 0]]

\* The order in which the frame kinds arrive from the capture source.
SourceKinds == <<"udp", "icmp", "arp">>

\* A burst: every packet is stamped <<second, fraction>> = <<0, 5>>.
Burst(n) ==
  [i \in 1..n |-> [id |-> i, kind |-> SourceKinds[((i - 1) % 3) + 1],
                   Timestamp |-> <<0, 5>>]]

\* One packet per second.
Spread(n) ==
  [i \in 1..n |-> [id |-> i, kind |-> SourceKinds[((i - 1) % 3) + 1],
                   Timestamp |-> <<i - 1, 0>>]]

\* Three UDP packets 40 seconds apart, and three a minute apart.
EveryFortySeconds ==
  [i \in 1..3 |-> [id |-> i, kind |-> "udp", Timestamp |-> <<(i - 1) * 40, 0>>]]

EveryMinute ==
  [i \in 1..3 |-> [id |-> i, kind |-> "udp", Timestamp |-> <<(i - 1) * 60, 0>>]]

\* What the interface or the pcap files hold.
Sources == {Burst(MaxPackets), Spread(MaxPackets)}

\* common.PcapNameSuffix, common.IndexNameSuffix
PcapNameSuffix == "pcap"
IndexNameSuffix == "idx"

Frame(packet) == Frames[packet.kind]

CaptureLength(packet) == Frame(packet).CaptureLength

\* common.GetFileBaseName: the timestamp formatted with FileTimeFormat, which
\* has no field below the second.  Second 0 is 2020-01-01 00:00:00 UTC.
TwoDigits(n) == IF n < 10 THEN "0" \o ToString(n) ELSE ToString(n)

GetFileBaseName(t) ==
  "2020_01_01-00_" \o TwoDigits(t[1] \div 60) \o "_" \o TwoDigits(t[1] % 60)

\* net.ParseIP(endpoint.String()): an IPv4 address comes back in its
\* 16-byte IPv4-in-IPv6 form.
V4InV6Prefix == <<0, 0, 0, 0, 0, 0, 0, 0, 0, 0, 255, 255>>

ParseIP(addr) ==
  IF Len(addr) = 4 THEN V4InV6Prefix \o addr
  ELSE addr

\* net.IP.To4 and net.IP.To16; the nil slice is the empty sequence.
To4(ip) ==
  IF Len(ip) = 4 THEN ip
  ELSE IF Len(ip) = 16 /\ SubSeq(ip, 1, 12) = V4InV6Prefix THEN SubSeq(ip, 13, 16)
  ELSE <<>>

To16(ip) ==
  IF Len(ip) = 4 THEN V4InV6Prefix \o ip
  ELSE IF Len(ip) = 16 THEN ip
  ELSE <<>>

\* common.ParsePacket: absent layers leave the zero value of the result.
ParsePacket(packet) ==
  LET f == Frame(packet)
      hasNet == f.NetworkLayer # ""
      tcp == f.TransportLayer = "TCP"
      udp == f.TransportLayer = "UDP"
  IN [vers  |-> IF f.NetworkLayer = "IPv6" THEN 6
                ELSE IF f.NetworkLayer = "IPv4" THEN 4 ELSE 0,
      sMAC  |-> f.SrcMAC,
      dMAC  |-> f.DstMAC,
      sIP   |-> IF hasNet THEN ParseIP(f.SrcIP) ELSE <<>>,
      dIP   |-> IF hasNet THEN ParseIP(f.DstIP) ELSE <<>>,
      sPort |-> IF hasNet /\ (tcp \/ udp) THEN f.SrcPort ELSE 0,
      dPort |-> IF hasNet /\ (tcp \/ udp) THEN f.DstPort ELSE 0,
      proto |-> IF ~hasNet THEN 0
                ELSE IF f.TransportLayer = "ICMPv6" THEN 58
                ELSE IF f.TransportLayer = "ICMPv4" THEN 1
                ELSE IF udp THEN 17
                ELSE IF tcp THEN 6 ELSE 0]

(***************************************************************************)
(* Index data model: keys, value elements, values, the in-memory index.    *)
(***************************************************************************)
MACType == 0
ProtoType == 1
IPv4Type == 2
IPv6Type == 3
PortType == 4

NewMACKey(macAddr) == [RecType |-> MACType, Data |-> macAddr]

NewProtoKey(proto) == [RecType |-> ProtoType, Data |-> <<proto>>]

NewIPv4Key(ip) ==
  IF To4(ip) = <<>> THEN NilKey ELSE [RecType |-> IPv4Type, Data |-> To4(ip)]

NewIPv6Key(ip) ==
  IF To16(ip) = <<>> THEN NilKey ELSE [RecType |-> IPv6Type, Data |-> To16(ip)]

\* A port key with the high byte first.
NewPortKeyBigEndian(port) ==
  [RecType |-> PortType, Data |-> <<port \div 256, port % 256>>]

\* binary.LittleEndian.PutUint16
NewPortKey(port) == [RecType |-> PortType, Data |-> <<port % 256, port \div 256>>]

KeyMarshalBinary(k) == <<k.RecType>> \o k.Data

KeyUnmarshalBinary(data) == [RecType |-> data[1], Data |-> Tail(data)]

KeyEqual(k, otherK) == k.RecType = otherK.RecType /\ k.Data = otherK.Data

\* Bitwise exclusive or of two naturals below 2^16.
RECURSIVE Xor(_, _)
Xor(a, b) ==
  IF a = 0 THEN b
  ELSE IF b = 0 THEN a
  ELSE ((a + b) % 2) + 2 * Xor(a \div 2, b \div 2)

\* One round of 32-bit FNV-1a on a limb pair: (h xor byte) * 16777619 mod 2^32.
\* 16777619 = 2^24 + 403.
FnvRound(h, byte) ==
  LET lo == Xor(h[2], byte)
      p  == lo * 403
  IN <<(h[1] * 403 + (p \div Limb) + (lo % 256) * 256) % Limb, p % Limb>>

FnvOffset32 == <<33052, 40389>>

RECURSIVE FnvSum(_, _)
FnvSum(h, bytes) ==
  IF bytes = <<>> THEN h ELSE FnvSum(FnvRound(h, Head(bytes)), Tail(bytes))

KeyHash(k) == FnvSum(FnvOffset32, KeyMarshalBinary(k))

NewValueElement(pathIdx, offset) == [PathIdx |-> pathIdx, Offset |-> offset]

\* Uint32 reading the high byte first.
GetUint32BigEndian(b) == <<b[2] + 256 * b[1], b[4] + 256 * b[3]>>

\* binary.LittleEndian.PutUint32 / Uint32 on a limb pair
PutUint32(u) == <<u[2] % 256, u[2] \div 256, u[1] % 256, u[1] \div 256>>

GetUint32(b) == <<b[3] + 256 * b[4], b[1] + 256 * b[2]>>

ValueElementMarshalBinary(ve) == <<ve.PathIdx>> \o PutUint32(ve.Offset)

ValueElementUnmarshalBinary(data) ==
  [PathIdx |-> data[1], Offset |-> GetUint32(SubSeq(data, 2, 5))]

RECURSIVE ValueMarshalBinary(_)
ValueMarshalBinary(v) ==
  IF v = <<>> THEN <<>>
  ELSE ValueElementMarshalBinary(Head(v)) \o ValueMarshalBinary(Tail(v))

RECURSIVE ValueUnmarshalBinary(_)
ValueUnmarshalBinary(data) ==
  IF Len(data) = 0 THEN <<>>
  ELSE <<ValueElementUnmarshalBinary(SubSeq(data, 1, 5))>>
         \o ValueUnmarshalBinary(SubSeq(data, 6, Len(data)))

\* A Put that appends to whatever entry the hash leads to.
PutAtNoProbe(m, hash, k, ve) ==
  IF hash \notin DOMAIN m
    THEN [h \in (DOMAIN m) \cup {hash} |->
             IF h = hash THEN [K |-> k, V |-> <<ve>>] ELSE m[h]]
    ELSE [m EXCEPT ![hash].V = Append(@, ve)]

\* MemIndex: a map from 32-bit hash to MiValue [K, V].
NewMemIndex == <<>>

HashInc(h) == Uint32(UAdd(h, U(1)))

RECURSIVE PutAt(_, _, _, _)
PutAt(m, hash, k, ve) ==
  IF hash \notin DOMAIN m
    THEN [h \in (DOMAIN m) \cup {hash} |->
             IF h = hash THEN [K |-> k, V |-> <<ve>>] ELSE m[h]]
  ELSE IF KeyEqual(m[hash].K, k)
    THEN [m EXCEPT ![hash].V = Append(@, ve)]
  ELSE PutAt(m, HashInc(hash), k, ve)

Put(m, k, ve) == PutAt(m, KeyHash(k), k, ve)

(***************************************************************************)
(* State of a capture run.                                                 *)
(***************************************************************************)
VARIABLES
  pcapPaths,          \* CaptureServer.pcapPaths: one directory per writer
  readFromFile,       \* CaptureServer.readFromFile
  source,             \* the packets the interface or the pcap files hold
  inputFiles,         \* CaptureServer.files: the pcap files to read, in order
  ioFaults,           \* the operations that fail in this environment
  ctxDone,            \* the cancellation context has fired
  now,                \* wall clock, seconds since the start of the run
  panic,              \* "none", or the runtime panic that ended the process
  runPc,              \* position of CaptureServer.Run / Stop
  wg,                 \* counter of CaptureServer.wg
  done,               \* the top-level done signal has been sent
  readerPc, readerMsg, nRead, readOutChan,
  schedPc, createNewFile, createNewFileTime, fileBytes, schedulerOutChans,
  writerPc, pcapFilename, pcapIdx, pcapFile, writerOutChans,
  writerOutLog,       \* history: the messages each writer put on its output
  muxPc, muxReg, inChanLen, muxOutChan,
  extractorPc, extractorOutChan,
  indexerPc, indexCache, indexerOutChan,
  indexWriterPc,
  files,              \* capture files on disk, by path
  stores,             \* index stores on disk, by path
  captured,           \* history: the packets the reader put into the pipeline
  schedLog,           \* history: the scheduler's decision for each packet
  indexerSeen,        \* history: per base, what the indexer has processed
  inserted,           \* history: the value elements the indexer inserted
  writeLog,           \* history: the calls of writeIndexFile, in order
  libIndex,           \* a MemIndex used directly through the index package
  putLog,             \* history: the Put calls made on libIndex, in order
  codec,              \* a key or value built, marshalled and unmarshalled
  labelDir,           \* entries of the label directory besides the stores
  reply               \* what the query server did for the last request

envVars == <<pcapPaths, readFromFile, source, inputFiles, ioFaults>>
libVars == <<libIndex, putLog, codec>>
queryVars == <<labelDir, reply>>

\* What no step of a capture run changes.
cfgVars == <<envVars, libVars, queryVars>>
runVars == <<runPc, done>>
readerVars == <<readerPc, readerMsg, nRead, readOutChan, captured>>
schedVars == <<schedPc, createNewFile, createNewFileTime, fileBytes,
               schedulerOutChans, schedLog>>
writerVars == <<writerPc, pcapFilename, pcapIdx, pcapFile, writerOutChans,
                writerOutLog>>
muxVars == <<muxPc, muxReg, inChanLen, muxOutChan>>
extractorVars == <<extractorPc, extractorOutChan>>
indexerVars == <<indexerPc, indexCache, indexerOutChan, indexerSeen, inserted>>
diskVars == <<files, stores, writeLog>>

\* The state of the capture process and of its disk.
captureVars == <<envVars, ctxDone, now, panic, wg, runVars, readerVars,
                 schedVars, writerVars, muxVars, extractorVars, indexerVars,
                 indexWriterPc, diskVars>>

vars == <<cfgVars, ctxDone, now, panic, wg, runVars, readerVars, schedVars,
          writerVars, muxVars, extractorVars, indexerVars, indexWriterPc,
          diskVars>>

\* Configurations of --pcap-path the model runs.
PcapPathChoices == {<<"d0">>, <<"d0", "d1">>}

N == Len(pcapPaths)

\* Writers are numbered as in the source, from 0.
Writers == 0 .. (N - 1)

Running == panic = "none"

\* The lists of pcap files a source may be stored in: a file is a number of
\* consecutive packets of the source and may fail to open.  One readable
\* file; an unreadable file followed by a readable one; one unreadable file.
FileLists(src) ==
  {<<[opens |-> TRUE, len |-> Len(src)]>>,
   <<[opens |-> FALSE, len |-> 1], [opens |-> TRUE, len |-> Len(src) - 1]>>,
   <<[opens |-> FALSE, len |-> Len(src)]>>}

\* The environment in which no operation fails.
NoFaults == {}

\* The state at the start of Run, for the given packet sources and
\* environments.  The scheduler's byte counters are drawn from counters: 24
\* in all of them is the scheduler at its start, with createNewFile set; any
\* other value is the scheduler later in a file, with createNewFile clear.
CaptureInit(sources, environments, counters) ==
  /\ pcapPaths \in PcapPathChoices
  /\ readFromFile \in BOOLEAN
  /\ source \in sources
  /\ inputFiles \in (IF readFromFile THEN FileLists(source) ELSE {<<>>})
  /\ ioFaults \in environments
  /\ ctxDone = FALSE
  /\ now = 0
  /\ panic = "none"
  /\ runPc = "start"
  /\ wg = 0
  /\ done = FALSE
  /\ readerPc = "range" /\ readerMsg = NilMsg /\ nRead = 0
  /\ readOutChan = MakeChan(readIfChanSize)
  /\ captured = {}
  /\ schedPc = "range"
  /\ fileBytes \in [Writers -> counters]
  /\ createNewFile = (fileBytes = [i \in Writers |-> U(PcapFileHeaderLen)])
  /\ createNewFileTime = 0
  /\ schedulerOutChans = [i \in Writers |-> MakeChan(schedulerChanSize)]
  /\ schedLog = <<>>
  /\ writerPc = [i \in Writers |-> "range"]
  /\ pcapFilename = [i \in Writers |-> ""]
  /\ pcapIdx = [i \in Writers |-> 0]
  /\ pcapFile = [i \in Writers |-> NilFile]
  /\ writerOutChans = [i \in Writers |-> MakeChan(pcapWriterChanSize)]
  /\ writerOutLog = [i \in Writers |-> <<>>]
  /\ muxPc = [i \in Writers |-> "range"]
  /\ muxReg = [i \in Writers |-> 0]
  /\ inChanLen = N
  /\ muxOutChan = MakeChan(muxBufferSize)
  /\ extractorPc = "range"
  /\ extractorOutChan = MakeChan(ExtractorChanSize)
  /\ indexerPc = "range"
  /\ indexCache = <<>>
  /\ indexerOutChan = MakeChan(idxOutChanSize)
  /\ indexerSeen = <<>>
  /\ inserted = {}
  /\ indexWriterPc = "range"
  /\ files = <<>>
  /\ stores = <<>>
  /\ writeLog = <<>>

\* The index package is not used directly, no query is made.
NoCall == [pc |-> "idle"]
NoReply == [pc |-> "idle"]

LibIdle == libIndex = NewMemIndex /\ putLog = <<>> /\ codec = NoCall

QueryIdle == labelDir = <<>> /\ reply = NoReply

InitWith(sources, environments, counters) ==
  /\ CaptureInit(sources, environments, counters)
  /\ LibIdle
  /\ QueryIdle

Init == InitWith(Sources, {NoFaults}, {U(PcapFileHeaderLen)})

MapSet(m, key, value) ==
  [k \in (DOMAIN m) \cup {key} |-> IF k = key THEN value ELSE m[k]]

MapDelete(m, key) == [k \in (DOMAIN m) \ {key} |-> m[k]]

(***************************************************************************)
(* sync.WaitGroup: Done on a zero counter panics.                          *)
(***************************************************************************)
WgDone ==
  /\ wg' = wg - 1
  /\ panic' = IF wg - 1 < 0 THEN "sync: negative WaitGroup counter" ELSE panic

(***************************************************************************)
(* CaptureServer.Run and Stop (capture.go).  Run starts each stage's       *)
(* goroutine and only then adds it to the wait group.                      *)
(***************************************************************************)
RunRank ==
  [start |-> 0, addScheduler |-> 1, addWriters |-> 2, addMux |-> 3,
   addExtractor |-> 4, addIndexer |-> 5, addIndexWrite |-> 6,
   select |-> 7, stop |-> 8, exit |-> 9]

RunNextPc ==
  [start |-> "addScheduler", addScheduler |-> "addWriters",
   addWriters |-> "addMux", addMux |-> "addExtractor",
   addExtractor |-> "addIndexer", addIndexer |-> "addIndexWrite",
   addIndexWrite |-> "select"]

\* A goroutine exists once Run has passed the call that starts it.
ReaderStarted == RunRank[runPc] >= 1
SchedulerStarted == RunRank[runPc] >= 1
WritersStarted == RunRank[runPc] >= 2
MuxStarted == RunRank[runPc] >= 3
ExtractorStarted == RunRank[runPc] >= 4
IndexerStarted == RunRank[runPc] >= 5
IndexWriterStarted == RunRank[runPc] >= 6

\* One step of Run's set-up: the wg.Add for the stage started last, then
\* the start of the next stage.
RunSetup ==
  /\ Running
  /\ runPc \in DOMAIN RunNextPc
  /\ wg' = CASE runPc = "start" -> wg
             [] runPc = "addWriters" -> wg + N
             [] OTHER -> wg + 1
  /\ runPc' = RunNextPc[runPc]
  /\ UNCHANGED <<cfgVars, ctxDone, now, panic, done, readerVars, schedVars,
                 writerVars, muxVars, extractorVars, indexerVars,
                 indexWriterPc, diskVars>>

\* select: case <-s.ctx.Done()
RunCtxDone ==
  /\ Running
  /\ runPc = "select"
  /\ ctxDone
  /\ runPc' = "stop"
  /\ UNCHANGED <<cfgVars, ctxDone, now, panic, wg, done, readerVars, schedVars,
                 writerVars, muxVars, extractorVars, indexerVars,
                 indexWriterPc, diskVars>>

\* Stop: s.wg.Wait() returns, then s.done <- struct{}{}
RunStop ==
  /\ Running
  /\ runPc = "stop"
  /\ wg = 0
  /\ done' = TRUE
  /\ runPc' = "exit"
  /\ UNCHANGED <<cfgVars, ctxDone, now, panic, wg, readerVars, schedVars,
                 writerVars, muxVars, extractorVars, indexerVars,
                 indexWriterPc, diskVars>>

\* The interrupt handler of main calls cancel().
Cancel ==
  /\ Running
  /\ ~ctxDone
  /\ ~done
  /\ ctxDone' = TRUE
  /\ UNCHANGED <<cfgVars, now, panic, wg, runVars, readerVars, schedVars,
                 writerVars, muxVars, extractorVars, indexerVars,
                 indexWriterPc, diskVars>>

(***************************************************************************)
(* Reader (readPacketsFromInterface, readPacketsFromFiles).                *)
(***************************************************************************)
\* A loop over the files that ends at the first file that cannot be opened.
RECURSIVE ReadFilesUntilFailure(_, _, _)
ReadFilesUntilFailure(fl, src, offset) ==
  IF fl = <<>> \/ ~Head(fl).opens THEN <<>>
  ELSE SubSeq(src, offset + 1, offset + Head(fl).len)
         \o ReadFilesUntilFailure(Tail(fl), src, offset + Head(fl).len)

\* readPacketsFromFiles' loop over the files: a file that pcap.OpenOffline
\* cannot open is passed over, the packets of the others follow each other.
RECURSIVE ReadFiles(_, _, _)
ReadFiles(fl, src, offset) ==
  IF fl = <<>> THEN <<>>
  ELSE LET file == Head(fl)
           rest == ReadFiles(Tail(fl), src, offset + file.len)
       IN IF ~file.opens THEN rest
          ELSE SubSeq(src, offset + 1, offset + file.len) \o rest

\* The packets packetSource.Packets() yields to the reader, in order.
SourcePackets ==
  IF readFromFile THEN ReadFiles(inputFiles, source, 0) ELSE source

\* packetSource.Packets() yields the next packet.
ReaderNext ==
  /\ Running
  /\ ReaderStarted
  /\ readerPc = "range"
  /\ nRead < Len(SourcePackets)
  /\ readerMsg' = Set(NewMessage("Packet"), "Packet", SourcePackets[nRead + 1])
  /\ nRead' = nRead + 1
  /\ readerPc' = "select"
  /\ UNCHANGED <<cfgVars, ctxDone, now, panic, wg, runVars, readOutChan,
                 captured, schedVars, writerVars, muxVars, extractorVars,
                 indexerVars, indexWriterPc, diskVars>>

\* select: case outCh <- msg
ReaderSend ==
  /\ Running
  /\ readerPc = "select"
  /\ Room(readOutChan, 1)
  /\ readOutChan' = Send(readOutChan, readerMsg)
  /\ captured' = captured \cup {Get(readerMsg, "Packet")}
  /\ readerMsg' = NilMsg
  /\ readerPc' = "range"
  /\ UNCHANGED <<cfgVars, ctxDone, now, panic, wg, runVars, nRead, schedVars,
                 writerVars, muxVars, extractorVars, indexerVars,
                 indexWriterPc, diskVars>>

\* A reader that looks at the context only once the send has room.
ReaderCtxDoneWhenRoom ==
  /\ Running
  /\ readerPc = "select"
  /\ ctxDone
  /\ Room(readOutChan, 1)
  /\ readOutChan' = Close(readOutChan)
  /\ readerMsg' = NilMsg
  /\ readerPc' = IF readFromFile THEN "finished" ELSE "exit"
  /\ UNCHANGED <<cfgVars, ctxDone, now, panic, wg, runVars, nRead, captured,
                 schedVars, writerVars, muxVars, extractorVars, indexerVars,
                 indexWriterPc, diskVars>>

\* select: case <-ctx.Done(): return; the deferred function closes outCh
ReaderCtxDone ==
  /\ Running
  /\ readerPc = "select"
  /\ ctxDone
  /\ readOutChan' = Close(readOutChan)
  /\ readerMsg' = NilMsg
  /\ readerPc' = IF readFromFile THEN "finished" ELSE "exit"
  /\ UNCHANGED <<cfgVars, ctxDone, now, panic, wg, runVars, nRead, captured,
                 schedVars, writerVars, muxVars, extractorVars, indexerVars,
                 indexWriterPc, diskVars>>

\* File mode: the last file is exhausted or cannot be opened; the deferred
\* function closes outCh
ReaderEOF ==
  /\ Running
  /\ ReaderStarted
  /\ readFromFile
  /\ readerPc = "range"
  /\ nRead = Len(SourcePackets)
  /\ readOutChan' = Close(readOutChan)
  /\ readerPc' = "finished"
  /\ UNCHANGED <<cfgVars, ctxDone, now, panic, wg, runVars, readerMsg, nRead,
                 captured, schedVars, writerVars, muxVars, extractorVars,
                 indexerVars, indexWriterPc, diskVars>>

\* File mode: finished <- true, an unbuffered send that completes when Run
\* takes the case <-readFinished of its select.
ReaderFinished ==
  /\ Running
  /\ readerPc = "finished"
  /\ runPc = "select"
  /\ readerPc' = "exit"
  /\ runPc' = "stop"
  /\ UNCHANGED <<cfgVars, ctxDone, now, panic, wg, done, readerMsg, nRead,
                 readOutChan, captured, schedVars, writerVars, muxVars,
                 extractorVars, indexerVars, indexWriterPc, diskVars>>

(***************************************************************************)
(* Scheduler (schedule).                                                   *)
(***************************************************************************)
\* Wall-clock advances the scheduler may observe between two readings.
ClockSteps == {0, 60}

ClockObs(from) == {t \in from .. MaxClock : (t - from) \in ClockSteps}

\* "Find the smallest file size": the first strictly smaller counter wins.
RECURSIVE ScanMin(_, _, _, _)
ScanMin(fb, i, minFileBytes, minIdx) ==
  IF i \notin DOMAIN fb THEN [minFileBytes |-> minFileBytes, minFileIdx |-> minIdx]
  ELSE IF ULess(fb[i], minFileBytes) THEN ScanMin(fb, i + 1, fb[i], i)
  ELSE ScanMin(fb, i + 1, minFileBytes, minIdx)

\* A scan in which a later equal counter replaces the earlier one.
FindSmallestLast(fb) ==
  LET k == CHOOSE k \in DOMAIN fb :
             /\ \A i \in DOMAIN fb : ~ULess(fb[i], fb[k])
             /\ \A i \in DOMAIN fb : i > k => ULess(fb[k], fb[i])
  IN [minFileBytes |-> fb[k], minFileIdx |-> k]

FindSmallest(fb) == ScanMin(fb, 0, MaxUint64, 0)

\* A packet size that counts the file header instead of the record header.
PacketFileSizeWithFileHeader(msg) ==
  UAdd(U(CaptureLength(Get(msg, "Packet"))), U(PcapFileHeaderLen))

\* "Size the packet will be in the file once written."
PacketFileSize(msg) ==
  UAdd(U(CaptureLength(Get(msg, "Packet"))), U(PcapRecordHeaderLen))

\* A size limit of 2^32: a file of 2^32 - 1 bytes is still filled.
RotateBySizeFrom2Pow32(minFileBytes, packetFileSize) ==
  UGeq(UAdd(minFileBytes, packetFileSize), <<Limb, 0>>)

\* A scheduler without a size limit.
RotateBySizeNever(minFileBytes, packetFileSize) == FALSE

\* The two conditions that latch createNewFile.
RotateBySize(minFileBytes, packetFileSize) ==
  UGeq(UAdd(minFileBytes, packetFileSize), maxPcapFileSize)

RotateByTime(t, since) == t - since >= MaxPcapFileTime

\* A broadcast in which every writer is given a base name of its own.
NewPcapFileMsgOwnBase(p, timeStr, i) ==
  Set(Set(Set(NewMessage("NewPcapFile"), "PcapPathBase", p),
          "PcapFilename", timeStr \o "-" \o ToString(i)), "PcapIdx", i)

NewPcapFileMsg(p, timeStr, i) ==
  Set(Set(Set(NewMessage("NewPcapFile"), "PcapPathBase", p),
          "PcapFilename", timeStr), "PcapIdx", i)

\* A scheduler whose createNewFile starts clear: it rotates by size and by
\* time only.
ScheduleWithoutLatch(msg, t) ==
  LET smallest == FindSmallest(fileBytes)
      k == smallest.minFileIdx
      packetFileSize == PacketFileSize(msg)
      rotate == \/ RotateBySize(smallest.minFileBytes, packetFileSize)
                \/ RotateByTime(t, createNewFileTime)
      timeStr == GetFileBaseName(Get(msg, "Packet").Timestamp)
      routed == Set(msg, "PcapIdx", k)
      reset == IF rotate THEN [i \in Writers |-> U(PcapFileHeaderLen)]
                         ELSE fileBytes
  IN /\ \A i \in Writers :
          Room(schedulerOutChans[i],
               (IF rotate THEN 1 ELSE 0) + (IF i = k THEN 1 ELSE 0))
     /\ schedulerOutChans' =
          [i \in Writers |->
              LET c1 == IF rotate
                          THEN Send(schedulerOutChans[i],
                                    NewPcapFileMsg(pcapPaths[i + 1], timeStr, i))
                          ELSE schedulerOutChans[i]
              IN IF i = k THEN Send(c1, routed) ELSE c1]
     /\ fileBytes' = [reset EXCEPT ![k] = UAdd(@, packetFileSize)]
     /\ createNewFile' = FALSE
     /\ createNewFileTime' = IF rotate THEN t ELSE createNewFileTime
     /\ now' = t
     /\ schedLog' = Append(schedLog,
          [packet |-> Get(msg, "Packet"), k |-> k, rotate |-> rotate,
           before |-> fileBytes, base |-> timeStr])

\* The body of "for msg := range inCh" for one packet.  t is the clock, in
\* seconds, read by time.Since and by time.Now.
Schedule(msg, t) ==
  LET smallest == FindSmallest(fileBytes)
      k == smallest.minFileIdx
      packetFileSize == PacketFileSize(msg)
      rotate == \/ createNewFile
                \/ RotateBySize(smallest.minFileBytes, packetFileSize)
                \/ RotateByTime(t, createNewFileTime)
      timeStr == GetFileBaseName(Get(msg, "Packet").Timestamp)
      routed == Set(msg, "PcapIdx", k)
      reset == IF rotate THEN [i \in Writers |-> U(PcapFileHeaderLen)]
                         ELSE fileBytes
  IN /\ \A i \in Writers :
          Room(schedulerOutChans[i],
               (IF rotate THEN 1 ELSE 0) + (IF i = k THEN 1 ELSE 0))
     /\ schedulerOutChans' =
          [i \in Writers |->
              LET c1 == IF rotate
                          THEN Send(schedulerOutChans[i],
                                    NewPcapFileMsg(pcapPaths[i + 1], timeStr, i))
                          ELSE schedulerOutChans[i]
              IN IF i = k THEN Send(c1, routed) ELSE c1]
     /\ fileBytes' = [reset EXCEPT ![k] = UAdd(@, packetFileSize)]
     /\ createNewFile' = FALSE
     /\ createNewFileTime' = IF rotate THEN t ELSE createNewFileTime
     /\ now' = t
     /\ schedLog' = Append(schedLog,
          [packet |-> Get(msg, "Packet"), k |-> k, rotate |-> rotate,
           before |-> fileBytes, base |-> timeStr])

SchedStep ==
  /\ Running
  /\ SchedulerStarted
  /\ schedPc = "range"
  /\ CanRecv(readOutChan)
  /\ \E t \in ClockObs(now) : Schedule(Head(readOutChan.buf), t)
  /\ readOutChan' = Recv(readOutChan)
  /\ UNCHANGED <<cfgVars, ctxDone, panic, wg, runVars, readerPc, readerMsg,
                 nRead, captured, schedPc, writerVars, muxVars, extractorVars,
                 indexerVars, indexWriterPc, diskVars>>

\* The same step when the scheduler takes every packet off its input at the
\* moment the packet was captured: the clock reads the packet's timestamp.
SchedStepOnArrival ==
  /\ Running
  /\ SchedulerStarted
  /\ schedPc = "range"
  /\ CanRecv(readOutChan)
  /\ LET msg == Head(readOutChan.buf)
     IN Schedule(msg, Get(msg, "Packet").Timestamp[1])
  /\ readOutChan' = Recv(readOutChan)
  /\ UNCHANGED <<cfgVars, ctxDone, panic, wg, runVars, readerPc, readerMsg,
                 nRead, captured, schedPc, writerVars, muxVars, extractorVars,
                 indexerVars, indexWriterPc, diskVars>>

\* inCh is closed and drained: close every outCh, done.Done()
SchedDone ==
  /\ Running
  /\ SchedulerStarted
  /\ schedPc = "range"
  /\ Drained(readOutChan)
  /\ schedulerOutChans' = [i \in Writers |-> Close(schedulerOutChans[i])]
  /\ WgDone
  /\ schedPc' = "exit"
  /\ UNCHANGED <<cfgVars, ctxDone, now, runVars, readerVars, createNewFile,
                 createNewFileTime, fileBytes, schedLog, writerVars, muxVars,
                 extractorVars, indexerVars, indexWriterPc, diskVars>>

(***************************************************************************)
(* Writer (writePcap), one per capture directory.                          *)
(***************************************************************************)
\* fmt.Sprintf("%s_%d.%s", path.Join(pcapBase, pcapFilename), pcapIdx, "pcap")
PcapPath(pcapBase, filename, idx) == <<pcapBase, filename, idx, PcapNameSuffix>>

\* os.Create truncates; WriteFileHeader writes the 24-byte file header.
CreatedFile == [header |-> TRUE, records |-> <<>>]

\* The file os.Create leaves when WriteFileHeader fails.
EmptyFile == [header |-> FALSE, records |-> <<>>]

FsCreate(fs, f) == MapSet(fs, f, CreatedFile)

\* pcapWriter.WritePacket at the current position of the file
FsWritePacket(fs, handle, packet) ==
  [fs EXCEPT ![handle.path].records =
      Append(@, [offset |-> handle.pos, packet |-> packet.id,
                 caplen |-> CaptureLength(packet)])]

FileClosedMsg(filename, idx) ==
  Set(Set(NewMessage("FileClosed"), "PcapFilename", filename), "PcapIdx", idx)

\* The operation op fails on the directory or store named.
Fails(op, where) == <<op, where>> \in ioFaults

\* A send on the writer's output, with its record in the history.
WriterSends(i, msgs) ==
  /\ writerOutChans' = [writerOutChans EXCEPT ![i].buf = @ \o msgs]
  /\ writerOutLog' = [writerOutLog EXCEPT ![i] = @ \o msgs]

\* return: the deferred function closes outCh and calls done.Done()
WriterReturns(i, msgs) ==
  /\ writerOutChans' =
       [writerOutChans EXCEPT ![i] = Close([@ EXCEPT !.buf = @ \o msgs])]
  /\ writerOutLog' = [writerOutLog EXCEPT ![i] = @ \o msgs]
  /\ WgDone
  /\ writerPc' = [writerPc EXCEPT ![i] = "exit"]

\* case msgTypeNewPcapFile: a FileClosed for the open file, if any, then the
\* new file is created and the message forwarded; the writer returns when
\* os.Create or WriteFileHeader fails
WriterNewPcapFile(i, msg) ==
  LET pcapBase == Get(msg, "PcapPathBase")
      f == PcapPath(pcapBase, Get(msg, "PcapFilename"), Get(msg, "PcapIdx"))
      closed == IF pcapFile[i] # NilFile
                  THEN <<FileClosedMsg(pcapFilename[i], Get(msg, "PcapIdx"))>>
                  ELSE <<>>
  IN /\ pcapFilename' = [pcapFilename EXCEPT ![i] = Get(msg, "PcapFilename")]
     /\ pcapIdx' = [pcapIdx EXCEPT ![i] = Get(msg, "PcapIdx")]
     /\ CASE Fails("create", pcapBase) ->
               /\ Room(writerOutChans[i], Len(closed))
               /\ WriterReturns(i, closed)
               /\ pcapFile' = [pcapFile EXCEPT ![i] = NilFile]
               /\ UNCHANGED files
          [] ~Fails("create", pcapBase) /\ Fails("header", pcapBase) ->
               /\ Room(writerOutChans[i], Len(closed))
               /\ WriterReturns(i, closed)
               /\ files' = MapSet(files, f, EmptyFile)
               /\ pcapFile' = [pcapFile EXCEPT ![i] = [path |-> f, pos |-> U(0)]]
          [] OTHER ->
               /\ Room(writerOutChans[i], Len(closed) + 1)
               /\ WriterSends(i, Append(closed, msg))
               /\ files' = FsCreate(files, f)
               /\ pcapFile' = [pcapFile EXCEPT ![i] =
                                 [path |-> f, pos |-> U(PcapFileHeaderLen)]]
               /\ UNCHANGED <<writerPc, wg, panic>>

\* case msgTypePacket: record the offset and the base, write the record,
\* forward the message; when Seek or WritePacket fails the loop continues
\* with the next message
WriterPacket(i, msg) ==
  IF pcapFile[i] = NilFile
    THEN \* Seek on the nil file fails and pcapFile.Name() dereferences it
         /\ panic' = "invalid memory address or nil pointer dereference"
         /\ UNCHANGED <<writerOutChans, writerOutLog, pcapFilename, pcapIdx,
                        pcapFile, files, writerPc, wg>>
    ELSE LET offset == pcapFile[i].pos
             dir == pcapFile[i].path[1]
             packet == Get(msg, "Packet")
             annotated == Set(Set(msg, "Offset", Uint32(offset)),
                              "PcapFilename", pcapFilename[i])
         IN IF Fails("seek", dir) \/ Fails("write", dir)
              THEN UNCHANGED <<writerOutChans, writerOutLog, pcapFilename,
                               pcapIdx, pcapFile, files, writerPc, wg, panic>>
              ELSE /\ Room(writerOutChans[i], 1)
                   /\ files' = FsWritePacket(files, pcapFile[i], packet)
                   /\ pcapFile' = [pcapFile EXCEPT ![i].pos =
                        UAdd(@, UAdd(U(PcapRecordHeaderLen),
                                     U(CaptureLength(packet))))]
                   /\ WriterSends(i, <<annotated>>)
                   /\ UNCHANGED <<pcapFilename, pcapIdx, writerPc, wg, panic>>

\* for msg := range inCh
WriterStep(i) ==
  /\ Running
  /\ WritersStarted
  /\ writerPc[i] = "range"
  /\ CanRecv(schedulerOutChans[i])
  /\ LET msg == Head(schedulerOutChans[i].buf)
     IN IF msg.msgType = "NewPcapFile"
          THEN WriterNewPcapFile(i, msg)
          ELSE WriterPacket(i, msg)
  /\ schedulerOutChans' = [schedulerOutChans EXCEPT ![i] = Recv(@)]
  /\ UNCHANGED <<cfgVars, ctxDone, now, runVars, readerVars, schedPc,
                 createNewFile, createNewFileTime, fileBytes, schedLog,
                 muxVars, extractorVars, indexerVars, indexWriterPc,
                 stores, writeLog>>

\* inCh is closed and drained: close(outCh), done.Done()
WriterDone(i) ==
  /\ Running
  /\ WritersStarted
  /\ writerPc[i] = "range"
  /\ Drained(schedulerOutChans[i])
  /\ WriterReturns(i, <<>>)
  /\ UNCHANGED <<cfgVars, ctxDone, now, runVars, readerVars, schedVars,
                 pcapFilename, pcapIdx, pcapFile, muxVars, extractorVars,
                 indexerVars, indexWriterPc, diskVars>>

(***************************************************************************)
(* Mux (muxMessageChans): one forwarding goroutine per writer output.  The *)
(* shared counter inChanLen is decremented and tested without              *)
(* synchronisation, so the decrement is a load, a store and a second load. *)
(***************************************************************************)
\* A forwarding loop that sends the message it looks at without taking it
\* off its input.
MuxForwardWithoutReceive(i) ==
  /\ Running
  /\ MuxStarted
  /\ muxPc[i] = "range"
  /\ CanRecv(writerOutChans[i])
  /\ ~muxOutChan.closed
  /\ Room(muxOutChan, 1)
  /\ muxOutChan' = Send(muxOutChan, Head(writerOutChans[i].buf))
  /\ UNCHANGED <<cfgVars, ctxDone, now, panic, wg, runVars, readerVars,
                 schedVars, writerVars, muxPc, muxReg, inChanLen,
                 extractorVars, indexerVars, indexWriterPc, diskVars>>

\* for msg := range in { out <- msg }
MuxForward(i) ==
  /\ Running
  /\ MuxStarted
  /\ muxPc[i] = "range"
  /\ CanRecv(writerOutChans[i])
  /\ writerOutChans' = [writerOutChans EXCEPT ![i] = Recv(@)]
  /\ IF muxOutChan.closed
       THEN /\ panic' = "send on closed channel"
            /\ UNCHANGED muxOutChan
       ELSE /\ Room(muxOutChan, 1)
            /\ muxOutChan' = Send(muxOutChan, Head(writerOutChans[i].buf))
            /\ UNCHANGED panic
  /\ UNCHANGED <<cfgVars, ctxDone, now, wg, runVars, readerVars, schedVars,
                 writerPc, pcapFilename, pcapIdx, pcapFile, writerOutLog,
                 muxPc, muxReg, inChanLen, extractorVars, indexerVars,
                 indexWriterPc, diskVars>>

\* the input is closed and drained; the deferred function loads inChanLen
MuxLoad(i) ==
  /\ Running
  /\ MuxStarted
  /\ muxPc[i] = "range"
  /\ Drained(writerOutChans[i])
  /\ muxReg' = [muxReg EXCEPT ![i] = inChanLen]
  /\ muxPc' = [muxPc EXCEPT ![i] = "store"]
  /\ UNCHANGED <<cfgVars, ctxDone, now, panic, wg, runVars, readerVars,
                 schedVars, writerVars, inChanLen, muxOutChan, extractorVars,
                 indexerVars, indexWriterPc, diskVars>>

\* inChanLen -= 1: the store of the decremented value
MuxStore(i) ==
  /\ Running
  /\ muxPc[i] = "store"
  /\ inChanLen' = muxReg[i] - 1
  /\ muxPc' = [muxPc EXCEPT ![i] = "check"]
  /\ UNCHANGED <<cfgVars, ctxDone, now, panic, wg, runVars, readerVars,
                 schedVars, writerVars, muxReg, muxOutChan, extractorVars,
                 indexerVars, indexWriterPc, diskVars>>

\* if inChanLen == 0 { close(outCh); done.Done() }
MuxCheck(i) ==
  /\ Running
  /\ muxPc[i] = "check"
  /\ muxPc' = [muxPc EXCEPT ![i] = "exit"]
  /\ IF inChanLen # 0
       THEN UNCHANGED <<muxOutChan, wg, panic>>
       ELSE IF muxOutChan.closed
         THEN /\ panic' = "close of closed channel"
              /\ UNCHANGED <<muxOutChan, wg>>
         ELSE /\ muxOutChan' = Close(muxOutChan)
              /\ WgDone
  /\ UNCHANGED <<cfgVars, ctxDone, now, runVars, readerVars, schedVars,
                 writerVars, muxReg, inChanLen, extractorVars, indexerVars,
                 indexWriterPc, diskVars>>

(***************************************************************************)
(* Extractor (extractPacket).                                              *)
(***************************************************************************)
Extract(msg) ==
  IF msg.msgType # "Packet" THEN msg
  ELSE LET p == ParsePacket(Get(msg, "Packet"))
       IN Set(Set(Set(Set(Set(Set(Set(msg,
            "SrcMAC", p.sMAC), "DstMAC", p.dMAC), "SrcIP", p.sIP),
            "DstIP", p.dIP), "SrcPort", p.sPort), "DstPort", p.dPort),
            "IPProto", p.proto)

\* for msg := range inChan { ...; outCh <- msg }
ExtractorStep ==
  /\ Running
  /\ ExtractorStarted
  /\ extractorPc = "range"
  /\ CanRecv(muxOutChan)
  /\ Room(extractorOutChan, 1)
  /\ extractorOutChan' = Send(extractorOutChan, Extract(Head(muxOutChan.buf)))
  /\ muxOutChan' = Recv(muxOutChan)
  /\ UNCHANGED <<cfgVars, ctxDone, now, panic, wg, runVars, readerVars,
                 schedVars, writerVars, muxPc, muxReg, inChanLen, extractorPc,
                 indexerVars, indexWriterPc, diskVars>>

\* inChan is closed and drained: done.Done(), then the deferred close(outCh)
ExtractorDone ==
  /\ Running
  /\ ExtractorStarted
  /\ extractorPc = "range"
  /\ Drained(muxOutChan)
  /\ WgDone
  /\ extractorOutChan' = Close(extractorOutChan)
  /\ extractorPc' = "exit"
  /\ UNCHANGED <<cfgVars, ctxDone, now, runVars, readerVars, schedVars,
                 writerVars, muxVars, indexerVars, indexWriterPc, diskVars>>

(***************************************************************************)
(* Index stores on disk (writeIndexFile): a store maps key bytes to value  *)
(* bytes; opening an existing store keeps its content and Set replaces the *)
(* value of a key.                                                         *)
(***************************************************************************)
\* fmt.Sprintf("%s.%s", filename, common.IndexNameSuffix)
IdxName(filename) == <<filename, IndexNameSuffix>>

MemIndexKeys(memIndex) == {KeyMarshalBinary(memIndex[h].K) : h \in DOMAIN memIndex}

MemIndexValueOf(memIndex, kBytes) ==
  LET h == CHOOSE h \in DOMAIN memIndex : KeyMarshalBinary(memIndex[h].K) = kBytes
  IN ValueMarshalBinary(memIndex[h].V)

\* for _, v := range memIndex { wb.Set(kBytes, vBytes) }; wb.Flush()
WriteBatch(db, memIndex) ==
  [kBytes \in (DOMAIN db) \cup MemIndexKeys(memIndex) |->
      IF kBytes \in MemIndexKeys(memIndex)
        THEN MemIndexValueOf(memIndex, kBytes)
        ELSE db[kBytes]]

\* The store is left as it was when badger.Open fails.
WriteIndexFile(st, idxName, memIndex) ==
  LET db == IF idxName \in DOMAIN st THEN st[idxName] ELSE <<>>
  IN IF Fails("index", idxName) THEN st
     ELSE MapSet(st, idxName, WriteBatch(db, memIndex))

\* The entry of writeLog for one call of writeIndexFile.
WriteLogEntry(idxName, by) ==
  [idxName |-> idxName, by |-> by, err |-> Fails("index", idxName)]

(***************************************************************************)
(* Indexer (index, flushAll).                                              *)
(***************************************************************************)
\* if proto != nil { memIndex.Put(idx.NewProtoKey(proto), valueElem) }
PutProto(memIndex, msg, ve) ==
  IF ~Has(msg, "IPProto") THEN memIndex
  ELSE Put(memIndex, NewProtoKey(Get(msg, "IPProto")), ve)

\* if ip != nil { To4: IPv4 key; else To16: IPv6 key }
PutIP(memIndex, msg, field, ve) ==
  IF ~Has(msg, field) THEN memIndex
  ELSE IF To4(Get(msg, field)) # <<>>
    THEN Put(memIndex, NewIPv4Key(To4(Get(msg, field))), ve)
  ELSE IF To16(Get(msg, field)) # <<>>
    THEN Put(memIndex, NewIPv6Key(To16(Get(msg, field))), ve)
  ELSE memIndex

\* if port != nil { memIndex.Put(idx.NewPortKey(port), valueElem) }
PutPort(memIndex, msg, field, ve) ==
  IF ~Has(msg, field) THEN memIndex
  ELSE Put(memIndex, NewPortKey(Get(msg, field)), ve)

\* An indexer that inserts the source MAC as well.
IndexPacketWithMAC(memIndex, msg) ==
  LET valueElem == NewValueElement(Get(msg, "PcapIdx"), Get(msg, "Offset"))
      m0 == Put(memIndex, NewMACKey(Get(msg, "SrcMAC")), valueElem)
      m1 == PutProto(m0, msg, valueElem)
      m2 == PutIP(m1, msg, "SrcIP", valueElem)
      m3 == PutIP(m2, msg, "DstIP", valueElem)
      m4 == PutPort(m3, msg, "SrcPort", valueElem)
  IN PutPort(m4, msg, "DstPort", valueElem)

\* case msgTypePacket
IndexPacket(memIndex, msg) ==
  LET valueElem == NewValueElement(Get(msg, "PcapIdx"), Get(msg, "Offset"))
      m1 == PutProto(memIndex, msg, valueElem)
      m2 == PutIP(m1, msg, "SrcIP", valueElem)
      m3 == PutIP(m2, msg, "DstIP", valueElem)
      m4 == PutPort(m3, msg, "SrcPort", valueElem)
  IN PutPort(m4, msg, "DstPort", valueElem)

MemoryIndexMsg(memIndex, filename) ==
  Set(Set(NewMessage("MemoryIndex"), "MemoryIndex", memIndex),
      "MemoryIndexFile", filename)

\* What the indexer has handled for one base: the messages of each type, the
\* MemIndexes created, the message counts at each MemoryIndex emission and the
\* packets handled after an emission.
NothingSeen ==
  [new |-> 0, closed |-> 0, packets |-> 0, created |-> 0, emits |-> {},
   late |-> 0]

Seen(filename) ==
  IF filename \in DOMAIN indexerSeen THEN indexerSeen[filename] ELSE NothingSeen

\* An indexer that does not count the writers of a base: every NewPcapFile
\* leaves openWriters at 1.
IndexerNewPcapFileUncounted(filename) ==
  /\ indexCache' =
       IF filename \notin DOMAIN indexCache
         THEN MapSet(indexCache, filename,
                     [index |-> NewMemIndex, openWriters |-> 1])
         ELSE indexCache
  /\ indexerSeen' = MapSet(indexerSeen, filename,
       [Seen(filename) EXCEPT
          !.new = @ + 1,
          !.created = IF filename \notin DOMAIN indexCache THEN @ + 1 ELSE @])
  /\ UNCHANGED <<indexerOutChan, inserted, panic>>

\* case msgTypeNewPcapFile
IndexerNewPcapFile(filename) ==
  /\ indexCache' =
       IF filename \notin DOMAIN indexCache
         THEN MapSet(indexCache, filename,
                     [index |-> NewMemIndex, openWriters |-> 1])
         ELSE [indexCache EXCEPT ![filename].openWriters = @ + 1]
  /\ indexerSeen' = MapSet(indexerSeen, filename,
       [Seen(filename) EXCEPT
          !.new = @ + 1,
          !.created = IF filename \notin DOMAIN indexCache THEN @ + 1 ELSE @])
  /\ UNCHANGED <<indexerOutChan, inserted, panic>>

\* case msgTypeFileClosed
IndexerFileClosed(filename) ==
  IF filename \notin DOMAIN indexCache
    THEN \* im is nil
         /\ panic' = "invalid memory address or nil pointer dereference"
         /\ UNCHANGED <<indexCache, indexerOutChan, indexerSeen, inserted>>
    ELSE LET im == indexCache[filename]
             flush == im.openWriters - 1 = 0
         IN /\ flush => Room(indexerOutChan, 1)
            /\ indexerOutChan' =
                 IF flush
                   THEN Send(indexerOutChan, MemoryIndexMsg(im.index, filename))
                   ELSE indexerOutChan
            /\ indexCache' =
                 IF flush
                   THEN MapDelete(indexCache, filename)
                   ELSE [indexCache EXCEPT ![filename].openWriters = @ - 1]
            /\ indexerSeen' = MapSet(indexerSeen, filename,
                 [Seen(filename) EXCEPT
                    !.closed = @ + 1,
                    !.emits = IF flush
                                THEN @ \cup {[new |-> Seen(filename).new,
                                              closed |-> Seen(filename).closed + 1]}
                                ELSE @])
            /\ UNCHANGED <<inserted, panic>>

\* case msgTypePacket
IndexerPacket(filename, msg) ==
  IF filename \notin DOMAIN indexCache
    THEN \* im is nil
         /\ panic' = "invalid memory address or nil pointer dereference"
         /\ UNCHANGED <<indexCache, indexerOutChan, indexerSeen, inserted>>
    ELSE /\ indexCache' = [indexCache EXCEPT ![filename].index = IndexPacket(@, msg)]
         /\ inserted' = inserted \cup
              {[base |-> filename,
                elem |-> NewValueElement(Get(msg, "PcapIdx"), Get(msg, "Offset")),
                packet |-> Get(msg, "Packet").id]}
         /\ indexerSeen' = MapSet(indexerSeen, filename,
              [Seen(filename) EXCEPT
                 !.packets = @ + 1,
                 !.late = IF Seen(filename).emits # {} THEN @ + 1 ELSE @])
         /\ UNCHANGED <<indexerOutChan, panic>>

\* for msg := range inCh
IndexerStep ==
  /\ Running
  /\ IndexerStarted
  /\ indexerPc = "range"
  /\ CanRecv(extractorOutChan)
  /\ extractorOutChan' = Recv(extractorOutChan)
  /\ LET msg == Head(extractorOutChan.buf)
         filename == Get(msg, "PcapFilename")
     IN CASE msg.msgType = "NewPcapFile" -> IndexerNewPcapFile(filename)
          [] msg.msgType = "FileClosed" -> IndexerFileClosed(filename)
          [] msg.msgType = "Packet" -> IndexerPacket(filename, msg)
  /\ UNCHANGED <<cfgVars, ctxDone, now, wg, runVars, readerVars, schedVars,
                 writerVars, muxVars, extractorPc, indexerPc, indexWriterPc,
                 diskVars>>

\* The orders in which a range over a map with these keys may visit them.
MapOrders(keys) ==
  {order \in [1..Cardinality(keys) -> keys] :
     \A i, j \in DOMAIN order : i # j => order[i] # order[j]}

\* A flushAll that returns without writing anything.
FlushNothing(cache, order, st, log) ==
  [indexCache |-> cache, stores |-> st, writeLog |-> log]

\* flushAll: the indices left in the cache are written one after the other,
\* in the order the map yields them, and deleted from the cache; the first
\* error of writeIndexFile ends the loop
RECURSIVE FlushAll(_, _, _, _)
FlushAll(cache, order, st, log) ==
  IF order = <<>> THEN [indexCache |-> cache, stores |-> st, writeLog |-> log]
  ELSE LET filename == Head(order)
           idxName == IdxName(filename)
           written == Append(log, WriteLogEntry(idxName, "flushAll"))
           zeroed == [cache EXCEPT ![filename].openWriters = 0]
       IN IF Fails("index", idxName)
            THEN [indexCache |-> zeroed, stores |-> st, writeLog |-> written]
            ELSE FlushAll(MapDelete(cache, filename), Tail(order),
                          WriteIndexFile(st, idxName, cache[filename].index),
                          written)

\* inCh is closed and drained: flushAll, done.Done(), close(outCh)
IndexerDone ==
  /\ Running
  /\ IndexerStarted
  /\ indexerPc = "range"
  /\ Drained(extractorOutChan)
  /\ \E order \in MapOrders(DOMAIN indexCache) :
       LET r == FlushAll(indexCache, order, stores, writeLog)
       IN /\ indexCache' = r.indexCache
          /\ stores' = r.stores
          /\ writeLog' = r.writeLog
  /\ WgDone
  /\ indexerOutChan' = Close(indexerOutChan)
  /\ indexerPc' = "exit"
  /\ UNCHANGED <<cfgVars, ctxDone, now, runVars, readerVars, schedVars,
                 writerVars, muxVars, extractorVars, indexerSeen, inserted,
                 indexWriterPc, files>>

(***************************************************************************)
(* Index writer (indexWrite).                                              *)
(***************************************************************************)
\* for msg := range inCh { if MemoryIndex: writeIndexFile }
IndexWriterStep ==
  /\ Running
  /\ IndexWriterStarted
  /\ indexWriterPc = "range"
  /\ CanRecv(indexerOutChan)
  /\ indexerOutChan' = Recv(indexerOutChan)
  /\ LET msg == Head(indexerOutChan.buf)
         idxName == IdxName(Get(msg, "MemoryIndexFile"))
     IN IF msg.msgType = "MemoryIndex"
          THEN /\ stores' = WriteIndexFile(stores, idxName, Get(msg, "MemoryIndex"))
               /\ writeLog' = Append(writeLog, WriteLogEntry(idxName, "indexWrite"))
          ELSE UNCHANGED <<stores, writeLog>>
  /\ UNCHANGED <<cfgVars, ctxDone, now, panic, wg, runVars, readerVars,
                 schedVars, writerVars, muxVars, extractorVars, indexerPc,
                 indexCache, indexerSeen, inserted, indexWriterPc, files>>

\* inCh is closed and drained: done.Done()
IndexWriterDone ==
  /\ Running
  /\ IndexWriterStarted
  /\ indexWriterPc = "range"
  /\ Drained(indexerOutChan)
  /\ WgDone
  /\ indexWriterPc' = "exit"
  /\ UNCHANGED <<cfgVars, ctxDone, now, runVars, readerVars, schedVars,
                 writerVars, muxVars, extractorVars, indexerVars, diskVars>>

(***************************************************************************)
(* Query server (QueryStream, createKey, readHeaderFromFile).               *)
(***************************************************************************)
\* net.ParseMAC: an address written as 6, 8 or 20 groups of two hexadecimal
\* digits is accepted; the nil slice (an error) is the empty sequence.
ParseMAC(groups) ==
  IF Len(groups) \in {6, 8, 20} THEN groups ELSE <<>>

\* createKey: the marshalled key of a query, <<>> when createKey fails
createKey(queryType, queryArg) ==
  CASE queryType = "ip" ->
         IF To4(ParseIP(queryArg)) # <<>>
           THEN KeyMarshalBinary(NewIPv4Key(ParseIP(queryArg)))
         ELSE IF To16(ParseIP(queryArg)) # <<>>
           THEN KeyMarshalBinary(NewIPv6Key(ParseIP(queryArg)))
         ELSE <<>>
    [] queryType = "port" ->
         \* strconv.ParseUint(queryArg, 10, 16)
         IF queryArg \in 0..65535
           THEN KeyMarshalBinary(NewPortKey(queryArg))
           ELSE <<>>
    [] queryType = "protocol" ->
         CASE queryArg = "tcp" -> KeyMarshalBinary(NewProtoKey(6))
           [] queryArg = "udp" -> KeyMarshalBinary(NewProtoKey(17))
           [] queryArg = "icmp" -> KeyMarshalBinary(NewProtoKey(1))
           [] queryArg = "icmp6" -> KeyMarshalBinary(NewProtoKey(58))
           [] OTHER -> <<>>
    [] queryType = "mac" ->
         IF ParseMAC(queryArg) # <<>>
           THEN KeyMarshalBinary(NewMACKey(ParseMAC(queryArg)))
           ELSE <<>>
    [] OTHER -> <<>>

\* readHeaderFromFile and readPacketFromFile at an offset: the id of the
\* packet whose record starts there, 0 when the file or the record is missing
ReadPacketAt(fs, f, offset) ==
  IF f \notin DOMAIN fs THEN 0
  ELSE LET hits == {r \in 1..Len(fs[f].records) :
                      Uint32(fs[f].records[r].offset) = offset}
       IN IF hits = {} THEN 0
          ELSE fs[f].records[CHOOSE r \in hits : TRUE].packet

\* txn.Get(key) and values.UnmarshalBinary
LookupValue(db, key) ==
  IF key \in DOMAIN db THEN ValueUnmarshalBinary(db[key]) ELSE <<>>

\* "Loop through the pcap file path/offset pairs" of one index store: the
\* packets sent on the stream, in order
QueryStore(st, fs, paths, indexName, key) ==
  LET values == LookupValue(st[indexName], key)
      \* strings.Replace(indexName, "."+common.IndexNameSuffix, "", 1)
      n == indexName[1]
  IN [j \in 1..Len(values) |->
        ReadPacketAt(fs, PcapPath(paths[values[j].PathIdx + 1], n,
                                  values[j].PathIdx),
                     values[j].Offset)]

\* QueryStream over every index store: what each store contributes
QueryStream(st, fs, paths, queryType, queryArg) ==
  [indexName \in DOMAIN st |->
     QueryStore(st, fs, paths, indexName, createKey(queryType, queryArg))]


(***************************************************************************)
(* Query server: one request (QueryStream, QueryBinaryStream,              *)
(* getIndexPaths).  The name of a directory entry is the sequence of the   *)
(* parts a "." separates: the store of base b is <<b, "idx">>.  Times are   *)
(* seconds, second 0 being 2020-01-01 00:00:00 UTC.                        *)
(***************************************************************************)
\* The seconds a directory of the model is named after.
FileTimes == 0 .. (3 * Minute)

FileTimeOf == [t \in FileTimes |-> GetFileBaseName(<<t, 0>>)]

\* time.Parse(common.FileTimeFormat, ts)
ParseFileTime(name) ==
  IF Len(name) = 1 /\ \E t \in FileTimes : FileTimeOf[t] = name[1]
    THEN [err |-> FALSE,
          t |-> CHOOSE t \in FileTimes : FileTimeOf[t] = name[1]]
    ELSE [err |-> TRUE, t |-> 0]

\* strings.HasSuffix(dir.Name(), suffix) for a suffix without a dot
HasSuffix(name, suffix) == name[Len(name)] = suffix

\* strings.TrimSuffix(dir.Name(), "."+suffix)
TrimSuffix(name, suffix) ==
  IF Len(name) > 1 /\ name[Len(name)] = suffix
    THEN SubSeq(name, 1, Len(name) - 1)
    ELSE name

\* ioutil.ReadDir(indexDir): the entries sorted by filename.  The stores come
\* in the order of their times, the format being of fixed width with the
\* year first; the other entries of the model begin with a letter and follow.
StoreDirs(st) ==
  LET times == {t \in FileTimes : IdxName(FileTimeOf[t]) \in DOMAIN st}
  IN [i \in 1..Cardinality(times) |->
        [name |-> IdxName(FileTimeOf[
                    CHOOSE t \in times :
                       Cardinality({u \in times : u < t}) = i - 1]),
         isDir |-> TRUE]]

ReadDir(st, others) == StoreDirs(st) \o others

\* getTimes
getTimes(s, d) == <<s, s + d>>

\* A window that includes its two ends.
InWindowClosed(t, start, end) == start <= t /\ t <= end

\* t.After(start) && t.Before(end)
InWindow(t, start, end) == start < t /\ t < end

RECURSIVE getIndexPaths(_, _, _)
getIndexPaths(dirs, start, end) ==
  IF dirs = <<>> THEN [err |-> FALSE, indices |-> <<>>]
  ELSE LET dir == Head(dirs)
           rest == getIndexPaths(Tail(dirs), start, end)
           t == ParseFileTime(TrimSuffix(dir.name, IndexNameSuffix))
       IN IF ~(dir.isDir /\ HasSuffix(dir.name, IndexNameSuffix)) THEN rest
          ELSE IF t.err \/ rest.err THEN [err |-> TRUE, indices |-> <<>>]
          ELSE IF InWindow(t.t, start, end)
            THEN [err |-> FALSE, indices |-> <<dir.name>> \o rest.indices]
          ELSE rest

\* pcapgo's file header and one record, as pieces of a binary payload
FileHeaderPiece == [piece |-> "file header", len |-> PcapFileHeaderLen]

RecordPiece(rec) ==
  [piece |-> "record", len |-> PcapRecordHeaderLen + rec.caplen,
   packet |-> rec.packet]

\* A buffer that is never emptied.
BufKeep(buf) == buf

\* buf.Reset()
BufReset(buf) == <<>>

\* The state of a request at its start: nothing sent, no error, nothing opened.
\* calls is the history of the Open and Close calls on stores and files.
NewRequest ==
  [sent |-> <<>>, err |-> "", indices |-> <<>>, opened |-> <<>>,
   filesOpened |-> <<>>, buf |-> <<>>, calls |-> <<>>]

\* badger.Open / os.Open and db.Close() / file.Close()
OpenCall(kind, name) == [op |-> "open", kind |-> kind, name |-> name]

CloseCall(kind, name) == [op |-> "close", kind |-> kind, name |-> name]

\* The body of "for _, val := range values"
ServeValue(q, fs, paths, indexName, val, binary) ==
  LET f == PcapPath(paths[val.PathIdx + 1], indexName[1], val.PathIdx)
      hits == IF f \in DOMAIN fs
                THEN {r \in 1..Len(fs[f].records) :
                        Uint32(fs[f].records[r].offset) = val.Offset}
                ELSE {}
      rec == fs[f].records[CHOOSE r \in hits : TRUE]
      buf == IF binary THEN BufReset(q.buf) ELSE q.buf
  IN IF f \notin DOMAIN fs
       THEN [q EXCEPT !.err = "error opening file", !.buf = buf]
     ELSE IF hits = {}
       THEN [q EXCEPT !.err = "error reading packet header from file",
                      !.buf = buf, !.filesOpened = Append(@, f),
                      !.calls = Append(@, OpenCall("file", f))]
     ELSE IF binary
       THEN [q EXCEPT !.buf = Append(buf, RecordPiece(rec)),
                      !.sent = Append(@, [Binary |-> Append(buf, RecordPiece(rec))]),
                      !.filesOpened = Append(@, f),
                      !.calls = @ \o <<OpenCall("file", f), CloseCall("file", f)>>]
     ELSE [q EXCEPT !.sent = Append(@, [Packet |-> rec.packet]),
                    !.filesOpened = Append(@, f),
                    !.calls = @ \o <<OpenCall("file", f), CloseCall("file", f)>>]

RECURSIVE ServeValues(_, _, _, _, _, _)
ServeValues(q, fs, paths, indexName, values, binary) ==
  IF values = <<>> \/ q.err # "" THEN q
  ELSE ServeValues(ServeValue(q, fs, paths, indexName, Head(values), binary),
                   fs, paths, indexName, Tail(values), binary)

\* A key that is not found is an error.
MissingKeyIsError(q) == [q EXCEPT !.err = "error getting key"]

\* if err == badger.ErrKeyNotFound { return nil }
MissingKey(q) == q

\* if err != nil { return ... }; db.Close()
DbClose(q, indexName) ==
  IF q.err # "" THEN q
  ELSE [q EXCEPT !.calls = Append(@, CloseCall("db", indexName))]

\* db.View(func(txn) error { ... })
DbView(o, st, fs, paths, indexName, req, binary) ==
  LET key == createKey(req.queryType, req.queryArg)
  IN IF key = <<>> THEN [o EXCEPT !.err = "error querying index"]
     ELSE IF key \notin DOMAIN st[indexName] THEN MissingKey(o)
     ELSE ServeValues(o, fs, paths, indexName,
                      ValueUnmarshalBinary(st[indexName][key]), binary)

\* The body of "for _, indexName := range indices"
ServeIndex(q, st, fs, paths, indexName, req, binary) ==
  LET o == [q EXCEPT !.opened = Append(@, indexName),
                     !.calls = Append(@, OpenCall("db", indexName))]
  IN DbClose(DbView(o, st, fs, paths, indexName, req, binary), indexName)

RECURSIVE ServeIndices(_, _, _, _, _, _, _)
ServeIndices(q, st, fs, paths, indices, req, binary) ==
  IF indices = <<>> \/ q.err # "" THEN q
  ELSE ServeIndices(ServeIndex(q, st, fs, paths, Head(indices), req, binary),
                    st, fs, paths, Tail(indices), req, binary)

\* The test that is never true.
NeverNoIndices(indices) == FALSE

\* if len(indices) == 0
NoIndices(indices) == Len(indices) = 0

\* QueryStream (binary = FALSE) and QueryBinaryStream (binary = TRUE)
Serve(st, fs, paths, others, req, binary) ==
  LET times == getTimes(req.start, req.duration)
      found == getIndexPaths(ReadDir(st, others), times[1], times[2])
      q == [NewRequest EXCEPT !.indices = found.indices]
      header == [q EXCEPT !.buf = <<FileHeaderPiece>>,
                          !.sent = <<[Binary |-> <<FileHeaderPiece>>]>>]
  IN IF found.err THEN [q EXCEPT !.err = "error getting index paths"]
     ELSE IF NoIndices(found.indices)
       THEN [q EXCEPT !.err = "no indices within the time range"]
     ELSE ServeIndices(IF binary THEN header ELSE q, st, fs, paths,
                       found.indices, req, binary)

(***************************************************************************)
(* Records of a capture file.  A record is 16 header bytes (seconds,       *)
(* microseconds, captured length, wire length, each a little-endian        *)
(* uint32) and the captured data.  A time.Time is <<seconds, nanoseconds>>  *)
(* since the epoch, the seconds a limb pair.                               *)
(***************************************************************************)
\* x * 1000 on a uint32: the low 32 bits of the product
UMul1000(u) ==
  LET lo == u[2] * 1000
      hi == u[1] * 1000 + (lo \div Limb)
  IN <<hi % Limb, lo % Limb>>

\* Quotient and remainder of a uint32 by d (d at most 10^9).
UDivMod(u, d) ==
  IF u[1] < 32768
    THEN LET n == u[1] * Limb + u[2] IN <<n \div d, n % d>>
    ELSE LET n == (u[1] - 32768) * Limb + u[2]
             r == (2147483647 % d) + 1 + (n % d)
         IN <<(2147483647 \div d) + (n \div d) + (r \div d), r % d>>

\* time.Unix(sec, nsec) for a uint32 sec and a uint32 nsec: nanoseconds of a
\* second or more are carried into the seconds
TimeUnix(sec, nsec) ==
  LET qr == UDivMod(nsec, 1000000000)
  IN [sec |-> UAdd(sec, U(qr[1])), nsec |-> qr[2]]

\* The four fields of a record header.
HeaderFields(header) ==
  [sec |-> GetUint32(SubSeq(header, 1, 4)),
   usec |-> GetUint32(SubSeq(header, 5, 8)),
   caplen |-> GetUint32(SubSeq(header, 9, 12)),
   wirelen |-> GetUint32(SubSeq(header, 13, 16))]

\* file.ReadAt(packetHeader, offset); timestamp and packetLen of the record
readHeaderFromFile(bytes) ==
  LET packetHeader == SubSeq(bytes, 1, PcapRecordHeaderLen)
      sec == GetUint32(SubSeq(packetHeader, 1, 4))
      microsec == GetUint32(SubSeq(packetHeader, 5, 8))
  IN [timestamp |-> TimeUnix(sec, UMul1000(microsec)),
      packetLen |-> GetUint32(SubSeq(packetHeader, 9, 12))]

\* file.ReadAt(packetData, offset+16); the packet with its metadata
readPacketFromFile(bytes, packetLen, ts) ==
  LET n == packetLen[1] * Limb + packetLen[2]
  IN [Timestamp |-> ts, Length |-> packetLen, CaptureLength |-> packetLen,
      Data |-> SubSeq(bytes, PcapRecordHeaderLen + 1, PcapRecordHeaderLen + n)]

\* pcapgo.Writer.WritePacket(ci, data): the bytes written, none when the
\* lengths of ci do not fit the data
WritePacket(ci, data) ==
  IF ci.CaptureLength # U(Len(data)) \/ ULess(ci.Length, ci.CaptureLength)
    THEN <<>>
    ELSE PutUint32(Uint32(ci.Timestamp.sec))
           \o PutUint32(U(ci.Timestamp.nsec \div 1000))
           \o PutUint32(ci.CaptureLength) \o PutUint32(ci.Length) \o data
(***************************************************************************)
(* The capture run.                                                        *)
(***************************************************************************)
\* The steps of Run and of the goroutines that both reading modes share, the
\* scheduler's handling of a message left out.
DownstreamStep ==
  \/ RunSetup
  \/ RunCtxDone
  \/ RunStop
  \/ ReaderSend
  \/ ReaderCtxDone
  \/ SchedDone
  \/ \E i \in Writers : WriterStep(i)
  \/ \E i \in Writers : WriterDone(i)
  \/ \E i \in Writers : MuxForward(i)
  \/ \E i \in Writers : MuxLoad(i)
  \/ \E i \in Writers : MuxStore(i)
  \/ \E i \in Writers : MuxCheck(i)
  \/ ExtractorStep
  \/ ExtractorDone
  \/ IndexerStep
  \/ IndexerDone
  \/ IndexWriterStep
  \/ IndexWriterDone

\* The same with the scheduler taking its messages at any time.
StageStep == SchedStep \/ DownstreamStep

\* The end of readPacketsFromFiles.
FileReaderEnd ==
  \/ ReaderEOF
  \/ ReaderFinished

\* The steps the program takes by itself.
Progress == StageStep \/ FileReaderEnd

\* A capture from an interface.
InterfaceNext ==
  \/ StageStep
  \/ Cancel
  \/ ReaderNext

Next == InterfaceNext \/ FileReaderEnd

Spec == Init /\ [][Next]_vars

\* The captures from an interface that delivers one packet per second: the
\* scheduler sees the packet sizes, clock readings and writer counts of Spec.
InitInterfaceSpread == Init /\ ~readFromFile /\ source = Spread(MaxPackets)

SchedulerSpec == InitInterfaceSpread /\ [][InterfaceNext]_vars

\* The runs with one capture directory, in which the reader's goroutine is
\* scheduled: a select whose cancellation case stays ready is eventually
\* taken.  Nothing is assumed of the stages downstream.
InitOneWriter == Init /\ N = 1

ReaderFairSpec == InitOneWriter /\ [][Next]_vars /\ WF_vars(ReaderCtxDone)


\* The scheduler fed by the reader, started at its beginning or late in a
\* file, when the counters stand at the size limit less the next packet
\* (116 bytes with its record header), one byte below and one byte above.
CounterChoices ==
  {U(PcapFileHeaderLen), <<Limb - 1, Limb - 118>>, <<Limb - 1, Limb - 117>>,
   <<Limb - 1, Limb - 116>>}

\* The counters of the writers are apart by less than a packet, as the
\* scheduler keeps them.
InitRotation ==
  /\ InitWith(Sources, {NoFaults}, CounterChoices)
  /\ ~readFromFile
  /\ \A i, j \in Writers : fileBytes[i][1] = fileBytes[j][1]

RotationNext ==
  \/ RunSetup
  \/ ReaderNext
  \/ ReaderSend
  \/ SchedStep

RotationSpec == InitRotation /\ [][RotationNext]_vars

\* Captures from an interface on which a packet arrives every 40 seconds or
\* every minute and is scheduled on arrival.
InitPaced ==
  /\ InitWith({EveryFortySeconds, EveryMinute}, {NoFaults}, {U(PcapFileHeaderLen)})
  /\ ~readFromFile

PacedNext ==
  \/ DownstreamStep
  \/ SchedStepOnArrival
  \/ Cancel
  \/ ReaderNext

PacedSpec == InitPaced /\ [][PacedNext]_vars

\* Environments in which one operation fails: seeking or writing in the
\* first capture directory, creating a file or writing its header in the
\* second, opening the index store of the first or of the last base.
FaultChoices ==
  {{<<"seek", "d0">>}, {<<"write", "d0">>},
   {<<"create", "d1">>}, {<<"header", "d1">>},
   {<<"index", IdxName(GetFileBaseName(<<0, 0>>))>>},
   {<<"index", IdxName(GetFileBaseName(<<120, 0>>))>>}}

\* Captures from an interface with a packet a minute in such environments.
InitFaults ==
  /\ InitWith({EveryMinute}, FaultChoices, {U(PcapFileHeaderLen)})
  /\ ~readFromFile

FaultSpec == InitFaults /\ [][PacedNext]_vars

\* Captures from pcap files into one directory.
InitFiles == Init /\ readFromFile /\ N = 1

FileSpec == InitFiles /\ [][Next]_vars

(***************************************************************************)
(* A capture late in its files: Run has started every stage, each writer   *)
(* has the file of second 0 open at the position of its byte counter, just *)
(* below the size limit, and the indexer holds the index of that base.     *)
(* The records and index entries written so far are left out.              *)
(***************************************************************************)
\* The packets that arrive half a minute after the last rotation.
LatePackets ==
  [i \in 1..MaxPackets |->
     [Spread(MaxPackets)[i] EXCEPT !.Timestamp = <<30 + i - 1, 0>>]]

OpenBase == GetFileBaseName(<<0, 0>>)

InitLate ==
  /\ pcapPaths \in PcapPathChoices
  /\ readFromFile = FALSE
  /\ source = LatePackets
  /\ inputFiles = <<>>
  /\ ioFaults = NoFaults
  /\ ctxDone = FALSE
  /\ now = 30
  /\ panic = "none"
  /\ runPc = "select"
  /\ wg = N + 5
  /\ done = FALSE
  /\ readerPc = "range" /\ readerMsg = NilMsg /\ nRead = 0
  /\ readOutChan = MakeChan(readIfChanSize)
  /\ captured = {}
  /\ schedPc = "range"
  /\ fileBytes \in [Writers -> CounterChoices \ {U(PcapFileHeaderLen)}]
  /\ createNewFile = FALSE
  /\ createNewFileTime = 0
  /\ schedulerOutChans = [i \in Writers |-> MakeChan(schedulerChanSize)]
  /\ schedLog = <<>>
  /\ writerPc = [i \in Writers |-> "range"]
  /\ pcapFilename = [i \in Writers |-> OpenBase]
  /\ pcapIdx = [i \in Writers |-> i]
  /\ pcapFile = [i \in Writers |->
                   [path |-> PcapPath(pcapPaths[i + 1], OpenBase, i),
                    pos |-> fileBytes[i]]]
  /\ writerOutChans = [i \in Writers |-> MakeChan(pcapWriterChanSize)]
  /\ writerOutLog = [i \in Writers |-> <<>>]
  /\ muxPc = [i \in Writers |-> "range"]
  /\ muxReg = [i \in Writers |-> 0]
  /\ inChanLen = N
  /\ muxOutChan = MakeChan(muxBufferSize)
  /\ extractorPc = "range"
  /\ extractorOutChan = MakeChan(ExtractorChanSize)
  /\ indexerPc = "range"
  /\ indexCache = MapSet(<<>>, OpenBase,
                         [index |-> NewMemIndex, openWriters |-> N])
  /\ indexerOutChan = MakeChan(idxOutChanSize)
  /\ indexerSeen = MapSet(<<>>, OpenBase,
                          [NothingSeen EXCEPT !.new = N, !.created = 1])
  /\ inserted = {}
  /\ indexWriterPc = "range"
  /\ files = [f \in {PcapPath(pcapPaths[i + 1], OpenBase, i) : i \in Writers}
               |-> CreatedFile]
  /\ stores = <<>>
  /\ writeLog = <<>>
  /\ LibIdle
  /\ QueryIdle

\* The steps of a capture that is neither cancelled nor at its end.
LateNext ==
  \/ ReaderNext
  \/ ReaderSend
  \/ SchedStep
  \/ \E i \in Writers : WriterStep(i)
  \/ \E i \in Writers : MuxForward(i)
  \/ ExtractorStep
  \/ IndexerStep
  \/ IndexWriterStep

LateSpec == InitLate /\ [][LateNext]_vars

(***************************************************************************)
(* The index package used directly.                                        *)
(***************************************************************************)
\* Keys for Put: a port key, two MAC keys with the hash of the port key, a
\* MAC key with the next hash, two MAC keys with hash 2^32 - 1 and one with
\* hash 0.
PutKeys ==
  {NewPortKey(80),
   NewMACKey(<<2, 26, 46, 204, 17, 5>>), NewMACKey(<<2, 6, 53, 184, 106, 5>>),
   NewMACKey(<<2, 16, 222, 162, 185, 4>>),
   NewMACKey(<<2, 32, 55, 125, 211, 3>>), NewMACKey(<<2, 47, 145, 57, 128, 7>>),
   NewMACKey(<<2, 7, 133, 11, 42, 2>>)}

PutElems == {NewValueElement(0, U(24)), NewValueElement(1, U(140))}

\* The number of Put calls made on one MemIndex.
MaxPuts == 3

\* m.Put(k, ve)
PutCall ==
  /\ Len(putLog) < MaxPuts
  /\ \E k \in PutKeys, ve \in PutElems :
        /\ libIndex' = Put(libIndex, k, ve)
        /\ putLog' = Append(putLog, [k |-> k, ve |-> ve])
  /\ UNCHANGED <<captureVars, codec, queryVars>>

\* No capture runs; the directories are those of one writer.
CaptureIdle ==
  /\ CaptureInit({EveryMinute}, {NoFaults}, {U(PcapFileHeaderLen)})
  /\ N = 1
  /\ ~readFromFile

InitPut == CaptureIdle /\ LibIdle /\ QueryIdle

PutSpec == InitPut /\ [][PutCall]_vars

\* An IPv6 address, an EUI-64 address and an address of three groups.
Ip6 == <<32, 1, 13, 184, 0, 0, 0, 0, 0, 0, 0, 0, 0, 0, 0, 1>>
Eui64 == <<2, 0, 94, 16, 0, 0, 0, 1>>
ShortMac == <<2, 0, 0>>

\* The longest Value marshalled.
MaxValueLen == 2

ValueElems ==
  {NewValueElement(0, U(PcapFileHeaderLen)), NewValueElement(1, <<1, 140>>),
   NewValueElement(255, MaxUint32)}

Values == UNION {[1..n -> ValueElems] : n \in 0..MaxValueLen}

\* The calls that build a key or a Value: the constructors with the
\* arguments the capture gives them, and createKey with the arguments of a
\* query.
CodecCalls ==
  {[fn |-> "NewPortKey", arg |-> p] : p \in 0..65535}
    \cup {[fn |-> "NewProtoKey", arg |-> n] : n \in 0..255}
    \cup {[fn |-> "NewIPv4Key", arg |-> ip] :
            ip \in {<<192, 168, 1, 1>>, IpA, ParseIP(IpB), Ip6}}
    \cup {[fn |-> "NewIPv6Key", arg |-> ip] : ip \in {Ip6, IpA, ParseIP(IpB)}}
    \cup {[fn |-> "NewMACKey", arg |-> mac] : mac \in {MacA, MacB}}
    \cup {[fn |-> "NewValue", arg |-> v] : v \in Values}
    \cup {[fn |-> "createKey", arg |-> <<"ip", ip>>] :
            ip \in {<<192, 168, 1, 1>>, Ip6, <<1, 2, 3>>}}
    \cup {[fn |-> "createKey", arg |-> <<"port", p>>] : p \in {80, 65535, 65536}}
    \cup {[fn |-> "createKey", arg |-> <<"protocol", n>>] :
            n \in {"tcp", "udp", "icmp", "icmp6", "gre"}}
    \cup {[fn |-> "createKey", arg |-> <<"mac", mac>>] :
            mac \in {MacA, Eui64, ShortMac}}
    \cup {[fn |-> "createKey", arg |-> <<"label", "pcap">>]}

\* The key or Value the constructor returns.
Construct(call) ==
  CASE call.fn = "NewPortKey" -> NewPortKey(call.arg)
    [] call.fn = "NewProtoKey" -> NewProtoKey(call.arg)
    [] call.fn = "NewIPv4Key" -> NewIPv4Key(call.arg)
    [] call.fn = "NewIPv6Key" -> NewIPv6Key(call.arg)
    [] call.fn = "NewMACKey" -> NewMACKey(call.arg)
    [] call.fn = "NewValue" -> call.arg

IsValue(call) == call.fn = "NewValue"

\* NewXKey(arg), or NewValue() and an Append per element
Build ==
  /\ codec.pc = "input"
  /\ codec.call.fn # "createKey"
  /\ codec' = [codec EXCEPT
       !.obj = <<Construct(codec.call)>>,
       !.pc = IF ~IsValue(codec.call) /\ Construct(codec.call) = NilKey
                THEN "nil" ELSE "built"]
  /\ UNCHANGED <<captureVars, libIndex, putLog, queryVars>>

\* createKey(queryType, queryArg)
CreateKeyCall ==
  /\ codec.pc = "input"
  /\ codec.call.fn = "createKey"
  /\ LET key == createKey(codec.call.arg[1], codec.call.arg[2])
     IN codec' = [codec EXCEPT
          !.wire = key,
          !.pc = IF key = <<>> THEN "error" ELSE "marshalled"]
  /\ UNCHANGED <<captureVars, libIndex, putLog, queryVars>>

\* k.MarshalBinary(), v.MarshalBinary()
Marshal ==
  /\ codec.pc = "built"
  /\ codec' = [codec EXCEPT
       !.wire = IF IsValue(codec.call) THEN ValueMarshalBinary(codec.obj[1])
                ELSE KeyMarshalBinary(codec.obj[1]),
       !.pc = "marshalled"]
  /\ UNCHANGED <<captureVars, libIndex, putLog, queryVars>>

\* UnmarshalBinary(data) into a fresh Key or Value
Unmarshal ==
  /\ codec.pc = "marshalled"
  /\ codec' = [codec EXCEPT
       !.back = IF IsValue(codec.call) THEN <<ValueUnmarshalBinary(codec.wire)>>
                ELSE <<KeyUnmarshalBinary(codec.wire)>>,
       !.pc = "unmarshalled"]
  /\ UNCHANGED <<captureVars, libIndex, putLog, queryVars>>

InitKey ==
  /\ CaptureIdle
  /\ libIndex = NewMemIndex
  /\ putLog = <<>>
  /\ codec \in {[pc |-> "input", call |-> c, obj |-> <<>>, wire |-> <<>>,
                 back |-> <<>>] : c \in CodecCalls}
  /\ QueryIdle

KeyNext == Build \/ CreateKeyCall \/ Marshal \/ Unmarshal

KeySpec == InitKey /\ [][KeyNext]_vars

(***************************************************************************)
(* The query server on the archive of a capture.                           *)
(***************************************************************************)
\* A UDP, an ICMP, an ARP and a UDP packet a minute apart.  A capture from
\* an interface ends when a packet arrives after the cancellation, and that
\* packet is dropped: the archive holds up to three logical files.
MixedEveryMinute ==
  [i \in 1..4 |-> [id |-> i, kind |-> SourceKinds[((i - 1) % 3) + 1],
                   Timestamp |-> <<(i - 1) * 60, 0>>]]

\* What else the label directory holds: nothing; a directory and a file that
\* do not end in idx; a directory backup.idx; a directory idx.
LabelDirChoices ==
  {<<>>,
   <<[name |-> <<"lost+found">>, isDir |-> TRUE],
     [name |-> <<"notes", "txt">>, isDir |-> FALSE]>>,
   <<[name |-> <<"backup", IndexNameSuffix>>, isDir |-> TRUE]>>,
   <<[name |-> <<IndexNameSuffix>>, isDir |-> TRUE]>>}

\* Time windows: around all three files, from the first to the last, around
\* the second, and after all of them.
Windows ==
  {<<0 - 1, 3 * Minute>>, <<0, 2 * Minute>>, <<Minute - 1, 2>>,
   <<3 * Minute, 60 * Minute>>}

Requests ==
  {[start |-> w[1], duration |-> w[2], queryType |-> a[1], queryArg |-> a[2]] :
     w \in Windows,
     a \in {<<"port", 53>>, <<"port", 0>>, <<"protocol", "icmp">>,
            <<"protocol", "tcp">>, <<"mac", MacA>>, <<"port", 65536>>}}

\* What the query server does for one request.
ReplyTo(req, binary) ==
  [pc |-> "done", binary |-> binary, req |-> req,
   q |-> Serve(stores, files, pcapPaths, labelDir, req, binary)]

\* One request is served, on the archive the capture has left.
QueryStreamCall ==
  /\ done
  /\ reply.pc = "idle"
  /\ \E req \in Requests : reply' = ReplyTo(req, FALSE)
  /\ UNCHANGED <<captureVars, libVars, labelDir>>

QueryBinaryStreamCall ==
  /\ done
  /\ reply.pc = "idle"
  /\ \E req \in Requests : reply' = ReplyTo(req, TRUE)
  /\ UNCHANGED <<captureVars, libVars, labelDir>>

InitQuery ==
  /\ CaptureInit({MixedEveryMinute}, {NoFaults}, {U(PcapFileHeaderLen)})
  /\ N = 1
  /\ ~readFromFile
  /\ LibIdle
  /\ labelDir \in LabelDirChoices
  /\ reply = NoReply

QueryNext == PacedNext \/ QueryStreamCall \/ QueryBinaryStreamCall

QuerySpec == InitQuery /\ [][QueryNext]_vars

(***************************************************************************)
(* One record of a capture file on its way through a binary query:         *)
(* readHeaderFromFile, readPacketFromFile, output.WritePacket.             *)
(***************************************************************************)
\* The data of a frame of n bytes.
FrameData(n) == [i \in 1..n |-> (7 * i) % 256]

\* Records as a capture file can hold them: header fields over their
\* 32 bits, data cut at the snapshot length or not.
StoredRecords ==
  {PutUint32(sec) \o PutUint32(usec) \o PutUint32(U(caplen))
     \o PutUint32(U(wirelen)) \o FrameData(caplen) :
       sec \in {U(0), U(1), U(1700000000), MaxUint32},
       usec \in {U(0), U(999999), U(4294967), U(4294968), MaxUint32},
       caplen \in {42, 60},
       wirelen \in {42, 60, 9000}}

\* timestamp, packetLen, err := readHeaderFromFile(file, int64(offset))
ReadHeader ==
  /\ codec.pc = "stored"
  /\ codec' = [codec EXCEPT !.obj = <<readHeaderFromFile(codec.call.arg)>>,
                            !.pc = "header read"]
  /\ UNCHANGED <<captureVars, libIndex, putLog, queryVars>>

\* packet, err := readPacketFromFile(file, int64(offset+16), packetLen, timestamp)
ReadPacket ==
  /\ codec.pc = "header read"
  /\ codec' = [codec EXCEPT
       !.back = <<readPacketFromFile(codec.call.arg, codec.obj[1].packetLen,
                                     codec.obj[1].timestamp)>>,
       !.pc = "packet read"]
  /\ UNCHANGED <<captureVars, libIndex, putLog, queryVars>>

\* output.WritePacket(packet.Metadata().CaptureInfo, packet.Data()) and
\* stream.Send of the buffer
SendRecord ==
  /\ codec.pc = "packet read"
  /\ LET out == WritePacket(codec.back[1], codec.back[1].Data)
     IN codec' = [codec EXCEPT !.wire = out,
                               !.pc = IF out = <<>> THEN "error" ELSE "sent"]
  /\ UNCHANGED <<captureVars, libIndex, putLog, queryVars>>

InitRecord ==
  /\ CaptureIdle
  /\ libIndex = NewMemIndex
  /\ putLog = <<>>
  /\ codec \in {[pc |-> "stored", call |-> [fn |-> "record", arg |-> r],
                 obj |-> <<>>, wire |-> <<>>, back |-> <<>>] :
                  r \in {s \in StoredRecords :
                           UGeq(HeaderFields(s).wirelen, HeaderFields(s).caplen)}}
  /\ QueryIdle

RecordNext == ReadHeader \/ ReadPacket \/ SendRecord

RecordSpec == InitRecord /\ [][RecordNext]_vars
(***************************************************************************)
(* Properties.                                                             *)
(***************************************************************************)
\* The writes of one index store, in writeLog.
Writes(idxName) ==
  Cardinality({j \in 1..Len(writeLog) : writeLog[j].idxName = idxName})

\* No two rotations of the run produced the same base name.
DistinctBases ==
  \A i, j \in 1..Len(schedLog) :
    (i < j /\ schedLog[i].rotate /\ schedLog[j].rotate)
      => schedLog[i].base # schedLog[j].base

\* C1: in a run whose rotations produce distinct base names, the index store
\* of every base the indexer has seen is written at most once, and exactly
\* once by the time done is signalled.
C1_IndexWrittenExactlyOnce ==
  DistinctBases =>
    \A b \in DOMAIN indexerSeen :
      /\ Writes(IdxName(b)) <= 1
      /\ done => Writes(IdxName(b)) = 1

\* C2: in a run whose rotations produce distinct base names, at every
\* MemoryIndex emission for a base the indexer has received NewPcapFile and
\* FileClosed for that base from each of the N writers, and it handles no
\* Packet of a base after the emission.
C2_EmitAfterAllWritersClosed ==
  DistinctBases =>
    \A b \in DOMAIN indexerSeen :
      /\ \A e \in indexerSeen[b].emits : e.new = N /\ e.closed = N
      /\ indexerSeen[b].late = 0

\* C3: when done is signalled, every ValueElement (i, o) the indexer stored
\* for base b finds, in the file of base b and writer i under pcapPaths[i],
\* a record starting at byte o, and it is the record of the packet the
\* element was inserted for.
C3_ElementsPointAtTheirPackets ==
  done =>
    \A e \in inserted :
      ReadPacketAt(files,
                   PcapPath(pcapPaths[e.elem.PathIdx + 1], e.base, e.elem.PathIdx),
                   e.elem.Offset) = e.packet

\* The queries put to a finished capture.
Queries ==
  {<<"ip", IpA>>, <<"ip", IpB>>, <<"port", 53>>, <<"port", 55000>>,
   <<"port", 0>>, <<"protocol", "udp">>, <<"protocol", "icmp">>,
   <<"protocol", "tcp">>}

\* Whether a packet has the attribute of the query with the value asked for,
\* as source or destination, decided on the layers of its frame.
Matches(packet, q) ==
  LET f == Frame(packet)
  IN CASE q[1] = "ip" ->
            f.NetworkLayer # "" /\ q[2] \in {f.SrcIP, f.DstIP}
       [] q[1] = "port" ->
            f.TransportLayer \in {"TCP", "UDP"} /\ q[2] \in {f.SrcPort, f.DstPort}
       [] q[1] = "protocol" ->
            \/ q[2] = "udp" /\ f.TransportLayer = "UDP"
            \/ q[2] = "tcp" /\ f.TransportLayer = "TCP"
            \/ q[2] = "icmp" /\ f.TransportLayer = "ICMPv4"
            \/ q[2] = "icmp6" /\ f.TransportLayer = "ICMPv6"

\* The packets a query returns, over all index stores.
Returned(q) ==
  LET r == QueryStream(stores, files, pcapPaths, q[1], q[2])
  IN UNION {{r[indexName][j] : j \in 1..Len(r[indexName])} :
              indexName \in DOMAIN r}

\* C4: on a finished capture, a query by ip, port or protocol returns exactly
\* the captured packets that have the value asked for.
C4_QueryReturnsExactlyTheMatches ==
  done =>
    \A q \in Queries :
      Returned(q) = {p.id : p \in {c \in captured : Matches(c, q)}}

\* C5: in file mode without cancellation the run does not come to a halt
\* before done is signalled: some goroutine can take a step.
C5_FileModeRunsToDone ==
  (readFromFile /\ ~ctxDone /\ ~done) => ENABLED (Progress \/ ReaderNext)

\* C6: when done has been signalled the scheduler, every writer, the mux, the
\* extractor, the indexer and the index writer have finished, and every
\* MemIndex created during the run has been written to its index store.
C6_DoneAfterAllStages ==
  done =>
    /\ schedPc = "exit"
    /\ \A i \in Writers : writerPc[i] = "exit"
    /\ \A i \in Writers : muxPc[i] = "exit"
    /\ muxOutChan.closed
    /\ extractorPc = "exit"
    /\ indexerPc = "exit"
    /\ indexWriterPc = "exit"
    /\ indexCache = <<>>
    /\ indexerOutChan.buf = <<>>
    /\ \A b \in DOMAIN indexerSeen :
         /\ indexerSeen[b].created >= 1
         /\ IdxName(b) \in DOMAIN stores
         /\ Writes(IdxName(b)) = indexerSeen[b].created

\* The reader waits in its select with a packet in hand, the output queue is
\* full and the context is cancelled.
ReaderBlocked ==
  /\ Running
  /\ ctxDone
  /\ readerPc = "select"
  /\ ~Room(readOutChan, 1)

\* C7: a reader blocked on a full output queue when the context is cancelled
\* closes its output queue, unless the queue gets room or the process dies
\* first; the stages downstream are free never to take a step.
C7_BlockedReaderObservesCancel ==
  ReaderBlocked ~> (readOutChan.closed \/ Room(readOutChan, 1) \/ ~Running)

\* The reader has closed its output queue on cancellation while the queue
\* was still full and the packet it held was never enqueued.
C7_Witness ==
  /\ ctxDone
  /\ readOutChan.closed
  /\ ~Room(readOutChan, 1)
  /\ nRead > Cardinality(captured)
  /\ readerPc \in {"finished", "exit"}

\* C8: in interface mode after cancellation the program can always take a
\* step of its own until done is signalled, without waiting for the source
\* to deliver another packet.
C8_CancelledRunsToDone ==
  (~readFromFile /\ ctxDone /\ ~done /\ Running) => ENABLED Progress

\* The lowest index among the writers whose byte counter is minimal.
LowestArgmin(fb) ==
  CHOOSE k \in DOMAIN fb :
    /\ \A i \in DOMAIN fb : ~ULess(fb[i], fb[k])
    /\ \A i \in DOMAIN fb : i < k => ULess(fb[k], fb[i])

PacketsOf(ch) == SelectSeq(ch.buf, LAMBDA m : m.msgType = "Packet")

\* C9: every packet the scheduler dequeues goes to exactly one writer queue,
\* that of the lowest-indexed writer k whose byte counter is minimal before
\* any rotation reset; the message carries PcapIdx = k and the packet, and
\* CaptureLength + 16 is added to the counter of writer k only.
C9_RoutedToLowestArgmin ==
  [][Len(schedLog') = Len(schedLog) + 1 =>
       LET msg == Head(readOutChan.buf)
           packet == Get(msg, "Packet")
           k == LowestArgmin(fileBytes)
           s == U(CaptureLength(packet) + 16)
           rotated == schedLog'[Len(schedLog')].rotate
           from == [i \in Writers |->
                      IF rotated THEN U(PcapFileHeaderLen) ELSE fileBytes[i]]
       IN /\ \A i \in Writers :
               PacketsOf(schedulerOutChans'[i]) =
                 IF i = k
                   THEN Append(PacketsOf(schedulerOutChans[i]),
                               Set(msg, "PcapIdx", k))
                   ELSE PacketsOf(schedulerOutChans[i])
          /\ \A i \in Writers :
               fileBytes'[i] = IF i = k THEN UAdd(from[i], s) ELSE from[i]]_vars

\* Two writers, the first packet went to writer 0 and the second, without a
\* rotation, to writer 1, whose queue holds it.
C9_Witness ==
  /\ N = 2
  /\ Len(schedLog) = 2
  /\ schedLog[1].k = 0
  /\ ~schedLog[2].rotate
  /\ schedLog[2].k = 1
  /\ PacketsOf(schedulerOutChans[1]) # <<>>

\* The largest CaptureLength among the packets the scheduler has processed.
LargestCaptureLength ==
  IF schedLog = <<>> THEN 0
  ELSE LET lens == {CaptureLength(schedLog[j].packet) : j \in 1..Len(schedLog)}
       IN CHOOSE m \in lens : \A l \in lens : l <= m

\* C10: after any prefix of the packet stream the byte counters of any two
\* writers differ by at most the largest CaptureLength processed so far
\* plus 16.
C10_Balance ==
  \A i, j \in Writers :
    \/ ULess(fileBytes[i], fileBytes[j])
    \/ ~ULess(U(LargestCaptureLength + 16), USub(fileBytes[i], fileBytes[j]))

\* Two writers whose counters differ after two packets without a rotation
\* between them.
C10_Witness ==
  /\ N = 2
  /\ Len(schedLog) = 2
  /\ ~schedLog[2].rotate
  /\ fileBytes[0] # fileBytes[1]
  /\ fileBytes[1] # U(PcapFileHeaderLen)

NewPcapFilesOf(ch) == SelectSeq(ch.buf, LAMBDA m : m.msgType = "NewPcapFile")

\* The scheduler's step is a rotation: one more NewPcapFile in every writer
\* queue, and every counter at 24 but for the packet added to writer k.
Rotation(k, s) ==
  /\ \A i \in Writers :
       Len(NewPcapFilesOf(schedulerOutChans'[i])) =
         Len(NewPcapFilesOf(schedulerOutChans[i])) + 1
  /\ fileBytes' = [i \in Writers |->
                     IF i = k THEN UAdd(U(PcapFileHeaderLen), s)
                              ELSE U(PcapFileHeaderLen)]

\* The scheduler's step is no rotation: no NewPcapFile is enqueued and the
\* counters stay, but for the packet added to writer k.
NoRotation(k, s) ==
  /\ \A i \in Writers :
       NewPcapFilesOf(schedulerOutChans'[i]) = NewPcapFilesOf(schedulerOutChans[i])
  /\ fileBytes' = [fileBytes EXCEPT ![k] = UAdd(@, s)]

\* The scheduler's steps rotate exactly when the condition says so.
RotatesIff(condition(_, _)) ==
  Len(schedLog') = Len(schedLog) + 1 =>
    LET k == LowestArgmin(fileBytes)
        s == U(CaptureLength(Get(Head(readOutChan.buf), "Packet")) + 16)
    IN IF condition(k, s) THEN Rotation(k, s) ELSE NoRotation(k, s)

\* bytes[k] + s >= 2^32, or a rotation interval has passed since the last
\* rotation (since the scheduler's start, before the first one).
SizeOrTime(k, s) ==
  \/ UGeq(UAdd(fileBytes[k], s), <<Limb, 0>>)
  \/ now' - createNewFileTime >= MaxPcapFileTime

\* The same with the first packet of the run and the limit of the source,
\* 2^32 - 1.
FirstOrSizeOrTime(k, s) ==
  \/ createNewFile
  \/ UGeq(UAdd(fileBytes[k], s), <<Limb - 1, Limb - 1>>)
  \/ now' - createNewFileTime >= MaxPcapFileTime

\* C11 as stated: on each packet the scheduler rotates if and only if
\* bytes[k] + s >= 2^32 or the time since the previous rotation is at least
\* the rotation interval.
C11_RotatesOnSizeOrTime == [][RotatesIff(SizeOrTime)]_vars

\* C11: on each packet the scheduler rotates if and only if the packet is the
\* first of the run, or bytes[k] + s >= 2^32 - 1 for the selected writer k, or
\* the time since the previous rotation is at least the rotation interval.
C11_RotatesOnFirstOrSizeOrTime == [][RotatesIff(FirstOrSizeOrTime)]_vars

\* A rotation by size alone: late in a file and with no time passed, the
\* first packet took the selected counter to 2^32 - 1 exactly.
C11_Witness ==
  /\ Len(schedLog) >= 1
  /\ schedLog[1].rotate
  /\ schedLog[1].before[schedLog[1].k] # U(PcapFileHeaderLen)
  /\ UAdd(schedLog[1].before[schedLog[1].k],
          U(CaptureLength(schedLog[1].packet) + 16)) = <<Limb - 1, Limb - 1>>
  /\ now = 0

\* The last decision of the scheduler.
LastScheduled == schedLog[Len(schedLog)]

\* C12: on a rotation the scheduler appends to every writer queue one
\* NewPcapFile with the base of the triggering packet, the writer's index and
\* its directory, and after it, in the queue of writer k only, the packet;
\* nothing else is enqueued, so that in every queue the triggering packet
\* and all later ones stand behind the NewPcapFile of the rotation.
C12_BroadcastBeforePacket ==
  [][(Len(schedLog') = Len(schedLog) + 1 /\ schedLog'[Len(schedLog')].rotate) =>
       LET msg == Head(readOutChan.buf)
           base == GetFileBaseName(Get(msg, "Packet").Timestamp)
           k == LowestArgmin(fileBytes)
       IN \A i \in Writers :
            LET was == schedulerOutChans[i].buf
                is == schedulerOutChans'[i].buf
                new == is[Len(was) + 1]
            IN /\ Len(is) = Len(was) + (IF i = k THEN 2 ELSE 1)
               /\ SubSeq(is, 1, Len(was)) = was
               /\ new.msgType = "NewPcapFile"
               /\ Get(new, "PcapFilename") = base
               /\ Get(new, "PcapIdx") = i
               /\ Get(new, "PcapPathBase") = pcapPaths[i + 1]
               /\ i = k => /\ is[Len(is)].msgType = "Packet"
                           /\ Get(is[Len(is)], "Packet") = Get(msg, "Packet")]_vars

\* Two writers and a rotation on the second packet: both queues hold the
\* NewPcapFile of its base, and the queue of writer k ends with the packet.
C12_Witness ==
  /\ N = 2
  /\ Len(schedLog) = 2
  /\ LastScheduled.rotate
  /\ \A i \in Writers :
       \E j \in 1..Len(schedulerOutChans[i].buf) :
          /\ schedulerOutChans[i].buf[j].msgType = "NewPcapFile"
          /\ Get(schedulerOutChans[i].buf[j], "PcapFilename") = LastScheduled.base
  /\ LET q == schedulerOutChans[LastScheduled.k].buf
     IN /\ q[Len(q)].msgType = "Packet"
        /\ Get(q[Len(q)], "Packet") = LastScheduled.packet

\* The Packet messages a writer has put on its output.
PacketsWritten(i) ==
  SelectSeq(writerOutLog[i], LAMBDA m : m.msgType = "Packet")

\* The bases of the capture files on disk.
LogicalFiles == {f[2] : f \in DOMAIN files}

\* C13: with packets at 0, 40 and 80 seconds and a rotation interval of one
\* minute the scheduler rotates on the first and on the third packet and on
\* no other; the first two packets are written under the base of second 0,
\* the third under the base of second 80, and no other logical file exists.
C13_TwoRotationsInEightySeconds ==
  source = EveryFortySeconds =>
    /\ \A j \in 1..Len(schedLog) : schedLog[j].rotate <=> j \in {1, 3}
    /\ \A i \in Writers :
         \A j \in 1..Len(PacketsWritten(i)) :
            LET m == PacketsWritten(i)[j]
            IN Get(m, "PcapFilename") =
                 IF Get(m, "Packet").id <= 2 THEN GetFileBaseName(<<0, 0>>)
                                             ELSE GetFileBaseName(<<80, 0>>)
    /\ LogicalFiles \subseteq {GetFileBaseName(<<0, 0>>), GetFileBaseName(<<80, 0>>)}

\* All three packets are written and forwarded, and two logical files exist.
C13_Witness ==
  /\ source = EveryFortySeconds
  /\ Len(schedLog) = 3
  /\ UNION {{Get(PacketsWritten(i)[j], "Packet").id :
               j \in 1..Len(PacketsWritten(i))} : i \in Writers} = {1, 2, 3}
  /\ Cardinality(LogicalFiles) = 2

\* The ids of the packets the scheduler routed to writer i, in routing order.
RoutedTo(i) ==
  LET routed == SelectSeq(schedLog, LAMBDA e : e.k = i)
  IN [j \in 1..Len(routed) |-> routed[j].packet.id]

\* C14: in the output of every writer each Packet annotated with base b
\* stands after a NewPcapFile(b) of that writer with no FileClosed between
\* them, the packets stand in the order they were routed to the writer, and
\* once the writer has finished every NewPcapFile(b) of its output is
\* followed by a FileClosed(b).
C14_PacketsBracketed ==
  \A i \in Writers :
    LET log == writerOutLog[i]
        ids == [j \in 1..Len(PacketsWritten(i)) |->
                  Get(PacketsWritten(i)[j], "Packet").id]
    IN /\ \A j \in 1..Len(log) :
            log[j].msgType = "Packet" =>
              \E n \in 1..(j - 1) :
                 /\ log[n].msgType = "NewPcapFile"
                 /\ Get(log[n], "PcapFilename") = Get(log[j], "PcapFilename")
                 /\ \A c \in (n + 1)..(j - 1) : log[c].msgType = "Packet"
       /\ Len(ids) <= Len(RoutedTo(i))
       /\ ids = SubSeq(RoutedTo(i), 1, Len(ids))
       /\ writerPc[i] = "exit" =>
            \A n \in 1..Len(log) :
               log[n].msgType = "NewPcapFile" =>
                 \E c \in (n + 1)..Len(log) :
                    /\ log[c].msgType = "FileClosed"
                    /\ Get(log[c], "PcapFilename") = Get(log[n], "PcapFilename")

\* The same without the FileClosed that closes the last file of a writer.
C14_BracketedButLast ==
  \A i \in Writers :
    LET log == writerOutLog[i]
        ids == [j \in 1..Len(PacketsWritten(i)) |->
                  Get(PacketsWritten(i)[j], "Packet").id]
        news == {n \in 1..Len(log) : log[n].msgType = "NewPcapFile"}
    IN /\ \A j \in 1..Len(log) :
            log[j].msgType = "Packet" =>
              \E n \in 1..(j - 1) :
                 /\ log[n].msgType = "NewPcapFile"
                 /\ Get(log[n], "PcapFilename") = Get(log[j], "PcapFilename")
                 /\ \A c \in (n + 1)..(j - 1) : log[c].msgType = "Packet"
       /\ Len(ids) <= Len(RoutedTo(i))
       /\ ids = SubSeq(RoutedTo(i), 1, Len(ids))
       /\ \A n \in news :
            (\E later \in news : later > n) =>
               \E c \in (n + 1)..Len(log) :
                  /\ log[c].msgType = "FileClosed"
                  /\ Get(log[c], "PcapFilename") = Get(log[n], "PcapFilename")

\* C15: every writer has put on its output one Packet message for each
\* Packet message it has taken from its queue, whether or not the record
\* could be written.
C15_FailedPacketStillForwarded ==
  \A i \in Writers :
    Len(PacketsWritten(i)) =
      Len(RoutedTo(i)) - Len(PacketsOf(schedulerOutChans[i]))

\* Writer i has returned although its input is still open.
WriterFailed(i) == writerPc[i] = "exit" /\ ~schedulerOutChans[i].closed

\* C16: after a writer has returned on a file-create or header-write
\* failure, the scheduler can handle the packet at the head of its input
\* whenever the queues of the writers that are left are empty.
C16_FailureStaysLocal ==
  ( /\ Running
    /\ \E i \in Writers : WriterFailed(i)
    /\ schedPc = "range"
    /\ CanRecv(readOutChan)
    /\ \A i \in Writers : ~WriterFailed(i) => schedulerOutChans[i].buf = <<>> )
  => ENABLED SchedStepOnArrival

\* C17: the mux output is never closed a second time, it is closed once all
\* forwarding goroutines have finished, and it is closed only after every
\* writer output has been closed and emptied into it.
C17_MuxClosesOnce ==
  /\ panic # "close of closed channel"
  /\ (\A i \in Writers : muxPc[i] = "exit") => muxOutChan.closed
  /\ muxOutChan.closed => \A i \in Writers : Drained(writerOutChans[i])

\* C18: a message leaves a writer's output only from its head and only to
\* become the last message of the mux output; the mux output grows by
\* nothing else and shrinks only at its head; and a forwarding goroutine
\* leaves its loop only when its writer's output is closed and empty.  Each
\* message of a writer's output so appears once on the mux output, behind
\* the messages the same writer put out before it.
C18_MuxKeepsMessages ==
  [][LET m == muxOutChan.buf
         m2 == muxOutChan'.buf
         Forwarded(i) ==
           /\ writerOutChans[i].buf # <<>>
           /\ writerOutChans'[i].buf = Tail(writerOutChans[i].buf)
           /\ m2 = Append(m, Head(writerOutChans[i].buf))
     IN /\ \A i \in Writers :
             LET w == writerOutChans[i].buf
                 w2 == writerOutChans'[i].buf
             IN \/ Len(w2) >= Len(w) /\ SubSeq(w2, 1, Len(w)) = w
                \/ Forwarded(i)
        /\ \/ m2 = m
           \/ m # <<>> /\ m2 = Tail(m)
           \/ \E i \in Writers : Forwarded(i)
        /\ \A i \in Writers :
             muxPc'[i] # "range" => Drained(writerOutChans'[i])]_vars

\* Two writers: the NewPcapFile of both has passed the mux and reached the
\* indexer, and a packet of writer 1 stands on the mux output.
C18_Witness ==
  /\ N = 2
  /\ \E b \in DOMAIN indexerSeen : indexerSeen[b].new = 2
  /\ muxOutChan.buf # <<>>
  /\ muxOutChan.buf[1].msgType = "Packet"
  /\ Get(muxOutChan.buf[1], "PcapIdx") = 1

\* The number of packets in the files before file j of the list.
RECURSIVE PacketsBefore(_)
PacketsBefore(j) ==
  IF j = 1 THEN 0 ELSE PacketsBefore(j - 1) + inputFiles[j - 1].len

\* The n-th packet of the source lies in a file that can be opened.
Readable(n) ==
  \E j \in 1..Len(inputFiles) :
     /\ inputFiles[j].opens
     /\ PacketsBefore(j) < n
     /\ n <= PacketsBefore(j) + inputFiles[j].len

\* The packets the reader has put on its output so far, in order.
Emitted ==
  [j \in 1..Len(schedLog) |-> schedLog[j].packet]
    \o [j \in 1..Len(readOutChan.buf) |-> Get(readOutChan.buf[j], "Packet")]

\* C19: reading files without cancellation, the reader is never held up by
\* a file that cannot be opened; when it is through, its output is closed
\* and it has emitted, in order, the packets of all files that can be
\* opened, those after an unreadable file included.
C19_UnreadableFileIsSkipped ==
  (readFromFile /\ ~ctxDone) =>
    /\ (Running /\ ReaderStarted /\ readerPc = "range") =>
          ENABLED (ReaderNext \/ ReaderEOF)
    /\ readerPc \in {"finished", "exit"} =>
          /\ readOutChan.closed
          /\ Emitted = SelectSeq(source, LAMBDA p : Readable(p.id))

\* The first file could not be opened, the packet of the second has been
\* emitted, the output is closed and finished has been signalled.
C19_Witness ==
  /\ readFromFile
  /\ ~ctxDone
  /\ Len(inputFiles) = 2
  /\ ~inputFiles[1].opens
  /\ readerPc = "exit"
  /\ readOutChan.closed
  /\ captured = {source[Len(source)]}

\* The index store of logical file f in st holds every key of memIndex with
\* its value.
Stored(st, f, memIndex) ==
  /\ IdxName(f) \in DOMAIN st
  /\ \A kBytes \in MemIndexKeys(memIndex) :
        /\ kBytes \in DOMAIN st[IdxName(f)]
        /\ st[IdxName(f)][kBytes] = MemIndexValueOf(memIndex, kBytes)

\* When the indexer's input is closed and drained, at most one MemIndex is
\* left in the cache: every writer has closed all files but its last, and
\* the last files of all writers share one base name.
OneIndexOpenAtClose ==
  (indexerPc = "range" /\ Drained(extractorOutChan)) =>
     Cardinality(DOMAIN indexCache) <= 1

FlushAllFailed ==
  /\ indexerPc = "exit"
  /\ \E j \in 1..Len(writeLog) : writeLog[j].by = "flushAll" /\ writeLog[j].err

\* The keys of the attributes present in a packet: the addresses of its
\* network layer, the protocol number of a recognised IP protocol and the
\* ports of a TCP or UDP layer.
PresentKeys(packet) ==
  LET f == Frame(packet)
  IN (IF f.NetworkLayer = "IPv4"
        THEN {NewIPv4Key(f.SrcIP), NewIPv4Key(f.DstIP)} ELSE {})
     \cup (IF f.NetworkLayer = "IPv6"
             THEN {NewIPv6Key(f.SrcIP), NewIPv6Key(f.DstIP)} ELSE {})
     \cup (IF f.NetworkLayer # "" /\ f.TransportLayer # ""
             THEN {NewProtoKey(ParsePacket(packet).proto)} ELSE {})
     \cup (IF f.NetworkLayer # "" /\ f.TransportLayer \in {"TCP", "UDP"}
             THEN {NewPortKey(f.SrcPort), NewPortKey(f.DstPort)} ELSE {})

\* C21: every element of every entry of a MemIndex in the cache was put
\* there for a packet that has the attribute of the entry's key; no PORT key
\* for a packet without ports, no PROTO key for a packet without a
\* recognised IP protocol.
C21_KeysOnlyForPresentAttributes ==
  \A f \in DOMAIN indexCache :
     \A h \in DOMAIN indexCache[f].index :
        LET e == indexCache[f].index[h]
        IN \A j \in 1..Len(e.V) :
              \E r \in inserted :
                 /\ r.base = f
                 /\ r.elem = e.V[j]
                 /\ e.K \in PresentKeys(source[r.packet])

\* The keys of the Put calls so far.
KeysPut == {putLog[i].k : i \in 1..Len(putLog)}

\* The elements put under key k, in the order of the calls.
RECURSIVE ElemsPut(_, _)
ElemsPut(log, k) ==
  IF log = <<>> THEN <<>>
  ELSE (IF Head(log).k = k THEN <<Head(log).ve>> ELSE <<>>)
         \o ElemsPut(Tail(log), k)

\* C22: after any sequence of Put calls on an empty MemIndex, the MemIndex
\* has exactly one entry per distinct key put, and the entry's Value is the
\* sequence of the elements put under that key, in call order, duplicates
\* kept; also for keys with equal or adjacent hashes.
C22_OneEntryPerKeyInOrder ==
  /\ {libIndex[h].K : h \in DOMAIN libIndex} = KeysPut
  /\ Cardinality(DOMAIN libIndex) = Cardinality(KeysPut)
  /\ \A h \in DOMAIN libIndex : libIndex[h].V = ElemsPut(putLog, libIndex[h].K)

\* Three calls: a key, a second key with the same hash, which is stored one
\* slot further, and the first key again.
C22_Witness ==
  /\ Len(putLog) = 3
  /\ putLog[1].k = putLog[3].k
  /\ putLog[1].k # putLog[2].k
  /\ KeyHash(putLog[1].k) = KeyHash(putLog[2].k)
  /\ HashInc(KeyHash(putLog[2].k)) \in DOMAIN libIndex
  /\ Len(libIndex[KeyHash(putLog[1].k)].V) = 2

\* A key with hash 2^32 - 1 is stored in slot 0 after the hash has wrapped.
PutWraps ==
  /\ U(0) \in DOMAIN libIndex
  /\ KeyHash(libIndex[U(0)].K) = MaxUint32

\* The data length fixed by a key's tag.
FixedLen(tag) ==
  CASE tag = MACType -> 6
    [] tag = ProtoType -> 1
    [] tag = IPv4Type -> 4
    [] tag = IPv6Type -> 16
    [] tag = PortType -> 2

\* C23: a key or Value built by its constructor, marshalled and unmarshalled
\* into a fresh object comes back equal, elements in order; the marshalled
\* key is 1 + fixed(tag) bytes long and the marshalled Value 5 bytes per
\* element.
C23_MarshalRoundTrip ==
  (codec.pc = "unmarshalled" /\ codec.call.fn # "createKey") =>
     /\ codec.back = codec.obj
     /\ Len(codec.wire) =
          IF IsValue(codec.call) THEN 5 * Len(codec.obj[1])
          ELSE 1 + FixedLen(codec.obj[1].RecType)

\* A Value of two different elements has come back.
C23_Witness ==
  /\ codec.pc = "unmarshalled"
  /\ IsValue(codec.call)
  /\ Len(codec.obj[1]) = 2
  /\ codec.obj[1][1] # codec.obj[1][2]
  /\ codec.back = codec.obj

\* C24: every key the constructors build from what the capture gives them,
\* and every key createKey builds for an argument it accepts, has the data
\* length fixed by its tag.
C24_KeyDataLengthFixedByTag ==
  (codec.pc = "unmarshalled" /\ ~IsValue(codec.call)) =>
     Len(codec.back[1].Data) = FixedLen(codec.back[1].RecType)

\* The same for the keys of the constructors alone.
ConstructedKeysHaveFixedLength ==
  (codec.pc = "unmarshalled" /\ ~IsValue(codec.call)
     /\ codec.call.fn # "createKey") =>
     Len(codec.back[1].Data) = FixedLen(codec.back[1].RecType)

\* C25: the marshalled key of port p is 4, p mod 256, p div 256, and the
\* marshalled key of an IPv4 address is 2 followed by its four bytes.
C25_KeyBinary ==
  codec.pc \in {"marshalled", "unmarshalled"} =>
     /\ codec.call.fn = "NewPortKey" =>
          codec.wire = <<4, codec.call.arg % 256, codec.call.arg \div 256>>
     /\ (codec.call.fn = "NewIPv4Key" /\ Len(codec.call.arg) = 4) =>
          codec.wire = <<2>> \o codec.call.arg

\* Port 80 has been marshalled to 0x04 0x50 0x00.
C25_Witness ==
  /\ codec.pc = "marshalled"
  /\ codec.call = [fn |-> "NewPortKey", arg |-> 80]
  /\ codec.wire = <<4, 80, 0>>

\* 192.168.1.1 has been marshalled to 0x02 0xC0 0xA8 0x01 0x01.
IPv4KeyMarshalled ==
  /\ codec.pc = "marshalled"
  /\ codec.call = [fn |-> "NewIPv4Key", arg |-> <<192, 168, 1, 1>>]
  /\ codec.wire = <<2, 192, 168, 1, 1>>

\* The time a store directory is named after.
TimeOfStore(name) == CHOOSE t \in FileTimes : name = IdxName(FileTimeOf[t])

\* The stores of the label directory whose time lies strictly inside the
\* window of the request.
Qualifying(req) ==
  {name \in DOMAIN stores :
     /\ req.start < TimeOfStore(name)
     /\ TimeOfStore(name) < req.start + req.duration}

\* Every entry of the label directory that ends in idx is named after a time.
WellFormed == \A j \in 1..Len(labelDir) :
  ~(labelDir[j].isDir /\ labelDir[j].name[Len(labelDir[j].name)] = IndexNameSuffix)

\* The stores a request selected, as a set.
Selected == {reply.q.indices[j] : j \in 1..Len(reply.q.indices)}

\* C26: in a label directory whose idx entries are all named after a time, a
\* request selects exactly the stores whose time lies strictly between start
\* and start + duration, in ascending order of time, and searches them in
\* that order.
C26_SearchesExactlyTheWindow ==
  (reply.pc = "done" /\ WellFormed) =>
     /\ Selected = Qualifying(reply.req)
     /\ \A i, j \in 1..Len(reply.q.indices) :
           i < j => TimeOfStore(reply.q.indices[i]) < TimeOfStore(reply.q.indices[j])
     /\ reply.q.opened = SubSeq(reply.q.indices, 1, Len(reply.q.opened))
     /\ reply.q.err = "" => reply.q.opened = reply.q.indices

\* Stores of second 0, 60 and 120 and the window from 0 to 120: the store
\* of second 60 alone is searched.
C26_Witness ==
  /\ reply.pc = "done"
  /\ WellFormed
  /\ Cardinality(DOMAIN stores) = 3
  /\ reply.req.start = 0
  /\ reply.req.duration = 2 * Minute
  /\ reply.q.opened = <<IdxName(GetFileBaseName(<<Minute, 0>>))>>

\* C27: an entry of the label directory that does not end in .idx, or whose
\* name before .idx is not a time, raises no error, and the stores in the
\* window are selected all the same.
C27_OtherEntriesAreNotRetained ==
  reply.pc = "done" =>
     /\ reply.q.err # "error getting index paths"
     /\ Selected = Qualifying(reply.req)

\* C28: in a label directory whose idx entries are all named after a time,
\* a request with no store inside its window fails with "no indices within
\* the time range", sends nothing, in binary mode no file header either, and
\* opens no store and no capture file.
C28_EmptyWindowFailsSilently ==
  (reply.pc = "done" /\ WellFormed /\ Qualifying(reply.req) = {}) =>
     /\ reply.q.err = "no indices within the time range"
     /\ reply.q.sent = <<>>
     /\ reply.q.opened = <<>>
     /\ reply.q.filesOpened = <<>>

\* A binary request after the three stores of the archive has failed.
C28_Witness ==
  /\ reply.pc = "done"
  /\ reply.binary
  /\ Cardinality(DOMAIN stores) = 3
  /\ Qualifying(reply.req) = {}
  /\ reply.q.err = "no indices within the time range"

\* The store holds the key of the request.
HasKey(name, req) ==
  createKey(req.queryType, req.queryArg) \in DOMAIN stores[name]

\* The messages of a reply that carry a packet.
PacketMessages ==
  IF reply.binary THEN SubSeq(reply.q.sent, 2, Len(reply.q.sent))
  ELSE reply.q.sent

\* The argument of the request gives a key.
ValidArg(req) == createKey(req.queryType, req.queryArg) # <<>>

\* C29: a request for a key whose window holds a store ends without error
\* after every selected store has been opened; a capture file is opened only
\* for a store that holds the key, and if no selected store holds it no
\* packet is sent.
C29_MissingKeyIsNoError ==
  (reply.pc = "done" /\ WellFormed /\ Qualifying(reply.req) # {}
     /\ ValidArg(reply.req)) =>
     /\ reply.q.err = ""
     /\ reply.q.opened = reply.q.indices
     /\ \A j \in 1..Len(reply.q.filesOpened) :
           HasKey(IdxName(reply.q.filesOpened[j][2]), reply.req)
     /\ (\A name \in Selected : ~HasKey(name, reply.req)) =>
           PacketMessages = <<>>

\* The first of three stores lacks the key, the second holds it and its
\* packet has been sent, the third has been opened as well.
C29_Witness ==
  /\ reply.pc = "done"
  /\ ~reply.binary
  /\ Len(reply.q.indices) = 3
  /\ ~HasKey(reply.q.indices[1], reply.req)
  /\ HasKey(reply.q.indices[2], reply.req)
  /\ reply.q.opened = reply.q.indices
  /\ Len(reply.q.sent) = 1
  /\ reply.q.err = ""

\* The value elements under the key of the request in the stores named, in
\* the order of the stores and of each Value.
RECURSIVE ElementsOf(_, _)
ElementsOf(indices, req) ==
  IF indices = <<>> THEN <<>>
  ELSE LET name == Head(indices)
           key == createKey(req.queryType, req.queryArg)
           values == IF key \in DOMAIN stores[name]
                       THEN ValueUnmarshalBinary(stores[name][key]) ELSE <<>>
       IN [j \in 1..Len(values) |-> [base |-> name[1], elem |-> values[j]]]
            \o ElementsOf(Tail(indices), req)

\* C30: a binary request that succeeds with M value elements under its key
\* in the selected stores has sent M + 1 messages: the file header alone,
\* then for each element, in index order, one message with the one record
\* (16 bytes and the data) of the packet the element was inserted for.
C30_BinaryStreamIsHeaderThenRecords ==
  (reply.pc = "done" /\ reply.binary /\ reply.q.err = "") =>
     LET elems == ElementsOf(reply.q.indices, reply.req)
         sent == reply.q.sent
     IN /\ Len(sent) = Len(elems) + 1
        /\ sent[1].Binary = <<[piece |-> "file header", len |-> 24]>>
        /\ \A j \in 1..Len(elems) :
              /\ Len(sent[j + 1].Binary) = 1
              /\ sent[j + 1].Binary[1].piece = "record"
              /\ \E r \in inserted :
                    /\ r.base = elems[j].base
                    /\ r.elem = elems[j].elem
                    /\ sent[j + 1].Binary[1].packet = r.packet
                    /\ sent[j + 1].Binary[1].len =
                         16 + CaptureLength(source[r.packet])

\* A binary request for port 0 over the whole archive: two elements in each
\* of two stores, five messages.
C30_Witness ==
  /\ reply.pc = "done"
  /\ reply.binary
  /\ reply.q.err = ""
  /\ Len(reply.q.opened) = 3
  /\ Len(reply.q.sent) = 5

(***************************************************************************)
(* C31, C34: the record a binary query emits.                              *)
(***************************************************************************)
\* The record header the capture itself writes: microseconds below 10^6.
WrittenByCapture(bytes) ==
  ULess(HeaderFields(bytes).usec, U(1000000))

\* C31: each record a binary query emits equals the stored record field for
\* field: seconds, microseconds, captured length, wire length and data.
C31_EmittedRecordEqualsStored ==
  (codec.pc = "sent" /\ codec.call.fn = "record"
     /\ WrittenByCapture(codec.call.arg))
    => codec.wire = codec.call.arg

\* Seconds, microseconds, captured length and data do come back as stored.
EmittedRecordKeepsAllButWireLength ==
  (codec.pc = "sent" /\ codec.call.fn = "record"
     /\ WrittenByCapture(codec.call.arg))
    => /\ HeaderFields(codec.wire).sec = HeaderFields(codec.call.arg).sec
       /\ HeaderFields(codec.wire).usec = HeaderFields(codec.call.arg).usec
       /\ HeaderFields(codec.wire).caplen = HeaderFields(codec.call.arg).caplen
       /\ HeaderFields(codec.wire).wirelen = HeaderFields(codec.call.arg).caplen
       /\ SubSeq(codec.wire, PcapRecordHeaderLen + 1, Len(codec.wire))
            = SubSeq(codec.call.arg, PcapRecordHeaderLen + 1,
                     Len(codec.call.arg))

\* epoch + sec seconds + usec * 1000 nanoseconds, the product exact
ExactTimestamp(sec, usec) ==
  LET qr == UDivMod(usec, 1000000)
  IN [sec |-> UAdd(sec, U(qr[1])), nsec |-> qr[2] * 1000]

\* C34: for every value of the seconds and microseconds fields the timestamp
\* the query path derives is the epoch plus sec seconds plus usec * 1000
\* nanoseconds, the product not wrapping modulo 2^32.
C34_TimestampWithoutWrapping ==
  (codec.pc = "header read" /\ codec.call.fn = "record")
    => codec.obj[1].timestamp
         = ExactTimestamp(HeaderFields(codec.call.arg).sec,
                          HeaderFields(codec.call.arg).usec)

\* The timestamp is the exact one while usec * 1000 is below 2^32.
TimestampExactBelowWrap ==
  (codec.pc = "header read" /\ codec.call.fn = "record"
     /\ ULess(HeaderFields(codec.call.arg).usec, U(4294968)))
    => codec.obj[1].timestamp
         = ExactTimestamp(HeaderFields(codec.call.arg).sec,
                          HeaderFields(codec.call.arg).usec)

(***************************************************************************)
(* C32: MAC addresses are collected and never indexed.                     *)
(***************************************************************************)
\* The marshalled keys of every index of the capture: those open in the
\* indexer, those on their way to the index writer and those in the stores.
IndexedKeys ==
  UNION {MemIndexKeys(indexCache[f].index) : f \in DOMAIN indexCache}
    \cup UNION {MemIndexKeys(Get(indexerOutChan.buf[j], "MemoryIndex")) :
                  j \in 1..Len(indexerOutChan.buf)}
    \cup UNION {DOMAIN stores[name] : name \in DOMAIN stores}

\* The packets of the archive, in its capture files, with this source or
\* destination MAC.
ArchivedWithMAC(mac) ==
  {r.packet : r \in UNION {{files[f].records[j] : j \in 1..Len(files[f].records)} :
                             f \in DOMAIN files}}
    \cap {p \in 1..Len(source) : Frame(source[p]).SrcMAC = mac
                                   \/ Frame(source[p]).DstMAC = mac}

OpenAfter(calls, n, kind) ==
  {i \in 1..n :
     /\ calls[i].op = "open"
     /\ calls[i].kind = kind
     /\ ~\E j \in (i + 1)..n :
           calls[j] = CloseCall(kind, calls[i].name)}

\* At most one store is open at any point of a request, and a store is
\* opened only when none is open.
OneStoreAtATime ==
  reply.pc = "done" =>
    \A n \in 0..Len(reply.q.calls) :
       Cardinality(OpenAfter(reply.q.calls, n, "db")) <= 1

\* A request that ends without error has closed all it opened.
ClosedOnSuccess ==
  (reply.pc = "done" /\ reply.q.err = "") =>
     /\ OpenAfter(reply.q.calls, Len(reply.q.calls), "db") = {}
     /\ OpenAfter(reply.q.calls, Len(reply.q.calls), "file") = {}

\* C33: at most one index store is open at any time of a query, and when the
\* query ends, with or without an error, every store and every capture file
\* it opened has been closed.
C33_OpenedIsClosedAtTheEnd ==
  reply.pc = "done" =>
     /\ \A n \in 0..Len(reply.q.calls) :
           Cardinality(OpenAfter(reply.q.calls, n, "db")) <= 1
     /\ OpenAfter(reply.q.calls, Len(reply.q.calls), "db") = {}
     /\ OpenAfter(reply.q.calls, Len(reply.q.calls), "file") = {}

(***************************************************************************)
(* C35: a writer has a file open when it handles a packet.                 *)
(***************************************************************************)
\* C35: the first packet of a run triggers a rotation, so in the queue of a
\* writer that has no capture file open every Packet stands behind a
\* NewPcapFile, and no writer handles a Packet with a nil file.
C35_NewPcapFileBeforeFirstPacket ==
  /\ schedLog # <<>> => schedLog[1].rotate
  /\ \A i \in Writers :
        (writerPc[i] = "range" /\ pcapFile[i] = NilFile) =>
           \A j \in 1..Len(schedulerOutChans[i].buf) :
              schedulerOutChans[i].buf[j].msgType = "Packet" =>
                 \E h \in 1..(j - 1) :
                    schedulerOutChans[i].buf[h].msgType = "NewPcapFile"
  /\ panic # "invalid memory address or nil pointer dereference"

\* Each of two writers has written a packet into its file.
C35_Witness ==
  /\ N = 2
  /\ \A i \in Writers :
        /\ PacketsWritten(i) # <<>>
        /\ pcapFile[i] # NilFile

(***************************************************************************)
(* C36: the open-index map when the indexer handles a message.             *)
(***************************************************************************)
\* The message the indexer handles next, if it is a Packet or a FileClosed.
IndexerHandlesNext ==
  /\ indexerPc = "range"
  /\ CanRecv(extractorOutChan)
  /\ Head(extractorOutChan.buf).msgType \in {"Packet", "FileClosed"}

EntryCreatedTwice ==
  /\ IndexerHandlesNext
  /\ Head(extractorOutChan.buf).msgType = "Packet"
  /\ Seen(Get(Head(extractorOutChan.buf), "PcapFilename")).created = 2

(***************************************************************************)
(* C37: the base names of the rotations of a run.                          *)
(***************************************************************************)
\* The scheduler's rotations, in order.
Rotations == SelectSeq(schedLog, LAMBDA e : e.rotate)

\* C37: any two rotations of a run carry distinct base names.
C37_RotationBasesDistinct ==
  \A i, j \in 1..Len(Rotations) :
     i # j => Rotations[i].base # Rotations[j].base

\* No step empties a capture file that holds records.
NoFileTruncated ==
  [][\A f \in DOMAIN files :
       files[f].records # <<>> => files'[f].records # <<>>]_vars

\* Rotations a second or more apart in packet time carry distinct bases.
BasesDistinctAcrossSeconds ==
  \A i, j \in 1..Len(Rotations) :
     Rotations[i].packet.Timestamp[1] # Rotations[j].packet.Timestamp[1]
       => Rotations[i].base # Rotations[j].base

(***************************************************************************)
(* C38: the offsets the writers record.                                    *)
(***************************************************************************)
\* The scheduler's decision for a packet.
ScheduledAs(packet) ==
  schedLog[CHOOSE j \in 1..Len(schedLog) : schedLog[j].packet = packet]

\* The counter of writer k to which the scheduler added the packet's size:
\* 24 after a rotation, the counter before the step otherwise.
CounterBefore(e) ==
  IF e.rotate THEN U(PcapFileHeaderLen) ELSE e.before[e.k]

\* C38: without write failures the offset a writer records for a packet is
\* the scheduler's counter of that writer before the packet's size s was
\* added, offset + s is below 2^32, and so is offset + 16.
C38_OffsetIsTheCounter ==
  \A i \in Writers :
    \A j \in 1..Len(PacketsWritten(i)) :
       LET m == PacketsWritten(i)[j]
           e == ScheduledAs(Get(m, "Packet"))
           s == U(CaptureLength(e.packet) + PcapRecordHeaderLen)
       IN /\ e.k = i
          /\ Get(m, "Offset") = CounterBefore(e)
          /\ ULess(UAdd(CounterBefore(e), s), <<Limb, 0>>)
          /\ ULess(UAdd(Get(m, "Offset"), U(PcapRecordHeaderLen)), <<Limb, 0>>)

\* A record written at offset 2^32 - 118 ends at 2^32 - 2, and the next
\* packet of the writer was written at offset 24 of a new file.
C38_Witness ==
  \E i \in Writers :
     /\ Len(PacketsWritten(i)) = 2
     /\ Get(PacketsWritten(i)[1], "Offset") = <<Limb - 1, Limb - 118>>
     /\ Get(PacketsWritten(i)[2], "Offset") = U(PcapFileHeaderLen)

(***************************************************************************)
(* C39: the completion counter.                                            *)
(***************************************************************************)
\* C39: the counter of the wait group never becomes negative: no worker's
\* Done runs before the Add that accounts for it.
C39_CounterNeverNegative ==
  /\ wg >= 0
  /\ panic # "sync: negative WaitGroup counter"
====
